---- MODULE Spec2Model ----
(***************************************************************************)
(* A model of the n8n API3 node: the contract-call codec (encoder,         *)
(* decoder, selector table, decimal formatting), the network registry,     *)
(* the JSON-RPC / REST transport and the operation handlers built on them. *)
(*                                                                         *)
(* Strings that the code inspects character by character are sequences of  *)
(* one-character strings.  A JavaScript BigInt is a record                 *)
(* [neg, mag] whose magnitude is a sequence of decimal digits, most        *)
(* significant first, without leading zeros (zero is the empty sequence),  *)
(* so that 256-bit words and 18-decimal amounts keep their full width.     *)
(***************************************************************************)
EXTENDS Integers, Sequences, FiniteSets, TLC

VARIABLES pc, op, input, requests, outcome, staticData,
          licensingNoticeLogged, triggerNoticeLogged, console, emittedIds,
          registry

\* the state of the process the node's modules are loaded in: the flag of
\* utils/helpers, the flag of Api3Trigger, the lines written by console.warn,
\* the auction and proposal ids the trigger has handed to the workflow, and
\* the contents of the NETWORK_CONFIGS object (a const binding of a mutable
\* object that every invocation reads and getNetworkConfig returns by
\* reference)
processVars ==
  <<licensingNoticeLogged, triggerNoticeLogged, console, emittedIds, registry>>

vars == <<pc, op, input, requests, outcome, staticData, processVars>>

(***************************************************************************)
(* Characters and JavaScript string primitives                             *)
(***************************************************************************)
DecChars == <<"0", "1", "2", "3", "4", "5", "6", "7", "8", "9">>

HexChars == DecChars \o <<"a", "b", "c", "d", "e", "f">>

UpperHex == <<"A", "B", "C", "D", "E", "F">>

IsDecChar(c) == \E i \in 1..10 : DecChars[i] = c

IsHexChar(c) == (\E i \in 1..16 : HexChars[i] = c) \/ (\E i \in 1..6 : UpperHex[i] = c)

DecVal(c) == (CHOOSE i \in 1..10 : DecChars[i] = c) - 1

HexVal(c) ==
  IF \E i \in 1..16 : HexChars[i] = c
  THEN (CHOOSE i \in 1..16 : HexChars[i] = c) - 1
  ELSE (CHOOSE i \in 1..6 : UpperHex[i] = c) + 9

toLowerCase(s) ==
  [i \in 1..Len(s) |->
     IF \E k \in 1..6 : UpperHex[k] = s[i]
     THEN HexChars[10 + (CHOOSE k \in 1..6 : UpperHex[k] = s[i])]
     ELSE s[i]]

Repeat(c, n) == [i \in 1..n |-> c]

Min(a, b) == IF a < b THEN a ELSE b

Max(a, b) == IF a > b THEN a ELSE b

\* String.prototype.slice(start, end) for non-negative arguments
slice(s, start, end) ==
  LET a == Min(start, Len(s))
      b == Min(end, Len(s))
  IN  IF a >= b THEN <<>> ELSE SubSeq(s, a + 1, b)

sliceFrom(s, start) == slice(s, start, Len(s))

padStart(s, n, c) == IF Len(s) >= n THEN s ELSE Repeat(c, n - Len(s)) \o s

padEnd(s, n, c) == IF Len(s) >= n THEN s ELSE s \o Repeat(c, n - Len(s))

startsWith0x(s) == Len(s) >= 2 /\ s[1] = "0" /\ s[2] = "x"

\* s.replace(/0+$/, '')
trimTrailingZeros(s) ==
  LET nz == {i \in 1..Len(s) : s[i] # "0"}
  IN  IF nz = {} THEN <<>>
      ELSE SubSeq(s, 1, CHOOSE i \in nz : \A j \in nz : i >= j)

\* s.split(sep): the pieces between the occurrences of the character sep
split(s, sep) ==
  LET at == {i \in 1..Len(s) : s[i] = sep}
      Nth(j) == IF j = 0 THEN 0
                ELSE IF j > Cardinality(at) THEN Len(s) + 1
                ELSE CHOOSE i \in at : Cardinality({c \in at : c < i}) = j - 1
  IN  [j \in 1..(Cardinality(at) + 1) |-> SubSeq(s, Nth(j - 1) + 1, Nth(j) - 1)]

\* s.trim(), for blanks
trim(s) ==
  LET ink == {i \in 1..Len(s) : s[i] # " "}
  IN  IF ink = {} THEN <<>>
      ELSE SubSeq(s, CHOOSE i \in ink : \A j \in ink : i <= j,
                     CHOOSE i \in ink : \A j \in ink : i >= j)

(***************************************************************************)
(* BigInt arithmetic on decimal digit sequences                            *)
(***************************************************************************)
stripZeros(m) ==
  LET nz == {i \in 1..Len(m) : m[i] # 0}
  IN  IF nz = {} THEN <<>>
      ELSE SubSeq(m, CHOOSE i \in nz : \A j \in nz : i <= j, Len(m))

\* Long magnitudes are multiplied and divided four decimal digits (a limb,
\* base 10000) and four hexadecimal digits (a group, base 65536) at a time.
\* limbs, least significant first, of a digit sequence
DigitsToLimbs(mag) ==
  LET n == (Len(mag) + 3) \div 4
      p == Repeat(0, 4 * n - Len(mag)) \o mag
  IN  [j \in 1..n |->
         LET k == 4 * (n - j)
         IN  p[k + 1] * 1000 + p[k + 2] * 100 + p[k + 3] * 10 + p[k + 4]]

LimbsToDigits(limbs) ==
  LET n == Len(limbs)
      Pow == <<1000, 100, 10, 1>>
  IN  stripZeros([i \in 1..(4 * n) |->
                    (limbs[n - ((i - 1) \div 4)] \div Pow[((i - 1) % 4) + 1]) % 10])

\* limbs * m + carry, for a small multiplier m
RECURSIVE MulAdd(_, _, _)
MulAdd(limbs, m, carry) ==
  IF limbs = <<>> THEN <<carry % 10000, carry \div 10000>>
  ELSE LET t == limbs[1] * m + carry
       IN  <<t % 10000>> \o MulAdd(Tail(limbs), m, t \div 10000)

\* <<quotient limbs, remainder>> of limbs (most significant first) divided by m
RECURSIVE DivSmall(_, _, _)
DivSmall(limbs, m, rem) ==
  IF limbs = <<>> THEN <<<<>>, rem>>
  ELSE LET t == rem * 10000 + limbs[1]
           r == DivSmall(Tail(limbs), m, t % m)
       IN  <<<<t \div m>> \o r[1], r[2]>>

Reverse(s) == [i \in 1..Len(s) |-> s[Len(s) + 1 - i]]

\* the concatenation of a sequence of sequences
RECURSIVE Concat(_)
Concat(seqs) == IF seqs = <<>> THEN <<>> ELSE seqs[1] \o Concat(Tail(seqs))

BigZero == [neg |-> FALSE, mag |-> <<>>]

MkBig(neg, mag) ==
  LET m == stripZeros(mag) IN [neg |-> neg /\ m # <<>>, mag |-> m]

\* the limbs of the first k four-digit groups of the hex string h
RECURSIVE HexMag(_, _)
HexMag(h, k) ==
  IF k = 0 THEN <<>>
  ELSE LET g == 4 * (k - 1)
           v == HexVal(h[g + 1]) * 4096 + HexVal(h[g + 2]) * 256
                + HexVal(h[g + 3]) * 16 + HexVal(h[g + 4])
       IN  MulAdd(HexMag(h, k - 1), 65536, v)

\* BigInt('0x' + hex): fails (SyntaxError) on the bare prefix or a non-hex digit
BigIntFromHex(h) ==
  IF h = <<>> \/ \E i \in 1..Len(h) : ~IsHexChar(h[i])
  THEN [ok |-> FALSE, value |-> BigZero]
  ELSE LET n == (Len(h) + 3) \div 4
           p == Repeat("0", 4 * n - Len(h)) \o h
       IN  [ok |-> TRUE, value |-> MkBig(FALSE, LimbsToDigits(HexMag(p, n)))]

\* BigInt(decimalString): '' is 0n, an optional sign, then decimal digits only
BigIntParse(s) ==
  LET signed == s # <<>> /\ s[1] \in {"-", "+"}
      body == IF signed THEN Tail(s) ELSE s
  IN  IF s = <<>> THEN [ok |-> TRUE, value |-> BigZero]
      ELSE IF startsWith0x(s) THEN BigIntFromHex(sliceFrom(s, 2))
      ELSE IF body = <<>> \/ \E i \in 1..Len(body) : ~IsDecChar(body[i])
      THEN [ok |-> FALSE, value |-> BigZero]
      ELSE [ok |-> TRUE,
            value |-> MkBig(s[1] = "-", [i \in 1..Len(body) |-> DecVal(body[i])])]

\* bigint.toString()
BigToString(b) ==
  IF b.mag = <<>> THEN <<"0">>
  ELSE (IF b.neg THEN <<"-">> ELSE <<>>) \o [i \in 1..Len(b.mag) |-> DecChars[b.mag[i] + 1]]

\* bigint.toString(16)
RECURSIVE HexOfMag(_)
HexOfMag(limbs) ==
  IF \A i \in 1..Len(limbs) : limbs[i] = 0 THEN <<>>
  ELSE LET qr == DivSmall(limbs, 65536, 0)
           r == qr[2]
       IN  HexOfMag(qr[1]) \o <<HexChars[(r \div 4096) + 1], HexChars[((r \div 256) % 16) + 1],
                                HexChars[((r \div 16) % 16) + 1], HexChars[(r % 16) + 1]>>

BigToHex(b) ==
  LET significant(h) ==
        LET nz == {i \in 1..Len(h) : h[i] # "0"}
        IN  SubSeq(h, CHOOSE i \in nz : \A j \in nz : i <= j, Len(h))
  IN  IF b.mag = <<>> THEN <<"0">>
      ELSE (IF b.neg THEN <<"-">> ELSE <<>>)
           \o significant(HexOfMag(Reverse(DigitsToLimbs(b.mag))))

\* value / BigInt(10 ** d): the quotient truncates toward zero
BigDivPow10(b, d) ==
  MkBig(b.neg, IF Len(b.mag) <= d THEN <<>> ELSE SubSeq(b.mag, 1, Len(b.mag) - d))

\* value % BigInt(10 ** d): the remainder takes the sign of the dividend
BigModPow10(b, d) ==
  MkBig(b.neg, IF Len(b.mag) <= d THEN b.mag ELSE SubSeq(b.mag, Len(b.mag) - d + 1, Len(b.mag)))

\* -1, 0 or 1 as the magnitude a is below, equal to or above the magnitude b
CmpMag(a, b) ==
  LET d == {i \in 1..Len(a) : Len(a) = Len(b) /\ a[i] # b[i]}
      k == CHOOSE i \in d : \A j \in d : i <= j
  IN  IF Len(a) < Len(b) THEN -1
      ELSE IF Len(a) > Len(b) THEN 1
      ELSE IF d = {} THEN 0
      ELSE IF a[k] < b[k] THEN -1 ELSE 1

LimbAt(limbs, i) == IF i <= Len(limbs) THEN limbs[i] ELSE 0

\* limbs of a + b + carry, from limb i upward
RECURSIVE AddLimbs(_, _, _, _)
AddLimbs(a, b, i, carry) ==
  IF i > Len(a) /\ i > Len(b) THEN <<carry>>
  ELSE LET t == LimbAt(a, i) + LimbAt(b, i) + carry
       IN  <<t % 10000>> \o AddLimbs(a, b, i + 1, t \div 10000)

\* limbs of a - b - borrow, from limb i upward, for a >= b
RECURSIVE SubLimbs(_, _, _, _)
SubLimbs(a, b, i, borrow) ==
  IF i > Len(a) THEN <<>>
  ELSE LET t == LimbAt(a, i) - LimbAt(b, i) - borrow
       IN  <<IF t < 0 THEN t + 10000 ELSE t>>
           \o SubLimbs(a, b, i + 1, IF t < 0 THEN 1 ELSE 0)

AddMag(a, b) == LimbsToDigits(AddLimbs(DigitsToLimbs(a), DigitsToLimbs(b), 1, 0))

SubMag(a, b) == LimbsToDigits(SubLimbs(DigitsToLimbs(a), DigitsToLimbs(b), 1, 0))

BigAdd(x, y) ==
  IF x.neg = y.neg THEN MkBig(x.neg, AddMag(x.mag, y.mag))
  ELSE IF CmpMag(x.mag, y.mag) >= 0 THEN MkBig(x.neg, SubMag(x.mag, y.mag))
  ELSE MkBig(y.neg, SubMag(y.mag, x.mag))

BigSub(x, y) == BigAdd(x, [neg |-> ~y.neg /\ y.mag # <<>>, mag |-> y.mag])

BigIsPositive(b) == ~b.neg /\ b.mag # <<>>

BigIsZero(b) == b.mag = <<>>


(***************************************************************************)
(* Errors and results of functions that may throw                          *)
(***************************************************************************)
NoError == [type |-> "none", message |-> "", description |-> ""]

Error(type, message) == [type |-> type, message |-> message, description |-> ""]

NodeApiError(message, description) ==
  [type |-> "NodeApiError", message |-> message, description |-> description]

NodeOperationError(message) == Error("NodeOperationError", message)

Ok(v) == [ok |-> TRUE, value |-> v, err |-> NoError]

Throw(e) == [ok |-> FALSE, value |-> <<>>, err |-> e]

(***************************************************************************)
(* constants                                                               *)
(***************************************************************************)
DEFAULT_DECIMALS == 18

DAPI_SERVER == <<"0", "x", "3", "d", "E", "C", "6", "1", "9", "d", "c", "5", "2", "9", "3", "6", "3", "7", "6", "7", "d", "E", "e", "9", "E", "7", "1", "d", "8", "d", "D", "1", "A", "5", "b", "c", "2", "7", "0", "D", "7", "6">>

API3_TOKEN == <<"0", "x", "0", "b", "3", "8", "2", "1", "0", "e", "a", "1", "1", "4", "1", "1", "5", "5", "7", "c", "1", "3", "4", "5", "7", "D", "4", "d", "A", "7", "d", "C", "6", "e", "a", "7", "3", "1", "B", "8", "8", "a">>

STAKING_POOL == <<"0", "x", "6", "d", "d", "6", "5", "5", "f", "1", "0", "d", "4", "b", "9", "E", "2", "4", "2", "a", "E", "1", "8", "6", "D", "9", "0", "5", "0", "B", "6", "8", "F", "7", "2", "5", "c", "7", "6", "d", "7", "6">>

GOVERNANCE == <<"0", "x", "1", "d", "7", "5", "7", "3", "d", "e", "8", "b", "3", "c", "F", "1", "c", "5", "B", "0", "e", "1", "6", "b", "e", "5", "4", "a", "0", "E", "2", "0", "a", "7", "8", "B", "8", "e", "5", "e", "6", "e", "4">>

\* An optional address that an entry does not have is the empty string (falsy).
NetworkEntry(chainId, name) ==
  [chainId |-> chainId, name |-> name, dapiServerAddress |-> DAPI_SERVER,
   api3TokenAddress |-> <<>>, stakingPoolAddress |-> <<>>, governanceAddress |-> <<>>]

NETWORK_CONFIGS ==
  [n \in {"ethereum"} |->
     [chainId |-> 1, name |-> "Ethereum Mainnet", dapiServerAddress |-> DAPI_SERVER,
      api3TokenAddress |-> API3_TOKEN, stakingPoolAddress |-> STAKING_POOL,
      governanceAddress |-> GOVERNANCE]]
  @@ ("polygon" :> NetworkEntry(137, "Polygon"))
  @@ ("arbitrum" :> NetworkEntry(42161, "Arbitrum One"))
  @@ ("arbitrum-nova" :> NetworkEntry(42170, "Arbitrum Nova"))
  @@ ("optimism" :> NetworkEntry(10, "Optimism"))
  @@ ("avalanche" :> NetworkEntry(43114, "Avalanche C-Chain"))
  @@ ("bsc" :> NetworkEntry(56, "BNB Smart Chain"))
  @@ ("base" :> NetworkEntry(8453, "Base"))
  @@ ("gnosis" :> NetworkEntry(100, "Gnosis"))
  @@ ("fantom" :> NetworkEntry(250, "Fantom"))
  @@ ("zksync" :> NetworkEntry(324, "zkSync Era"))
  @@ ("scroll" :> NetworkEntry(534352, "Scroll"))
  @@ ("linea" :> NetworkEntry(59144, "Linea"))
  @@ ("mantle" :> NetworkEntry(5000, "Mantle"))
  @@ ("moonbeam" :> NetworkEntry(1284, "Moonbeam"))
  @@ ("moonriver" :> NetworkEntry(1285, "Moonriver"))
  @@ ("celo" :> NetworkEntry(42220, "Celo"))
  @@ ("goerli" :> NetworkEntry(5, "Goerli Testnet"))
  @@ ("sepolia" :> NetworkEntry(11155111, "Sepolia Testnet"))
  @@ ("mumbai" :> NetworkEntry(80001, "Mumbai Testnet"))

COMMON_DAPIS == <<
  <<"E", "T", "H", "/", "U", "S", "D">>,
  <<"B", "T", "C", "/", "U", "S", "D">>,
  <<"M", "A", "T", "I", "C", "/", "U", "S", "D">>,
  <<"A", "V", "A", "X", "/", "U", "S", "D">>,
  <<"B", "N", "B", "/", "U", "S", "D">>,
  <<"S", "O", "L", "/", "U", "S", "D">>,
  <<"A", "R", "B", "/", "U", "S", "D">>,
  <<"O", "P", "/", "U", "S", "D">>,
  <<"L", "I", "N", "K", "/", "U", "S", "D">>,
  <<"U", "N", "I", "/", "U", "S", "D">>,
  <<"A", "A", "V", "E", "/", "U", "S", "D">>,
  <<"C", "R", "V", "/", "U", "S", "D">>,
  <<"M", "K", "R", "/", "U", "S", "D">>,
  <<"S", "N", "X", "/", "U", "S", "D">>,
  <<"C", "O", "M", "P", "/", "U", "S", "D">>,
  <<"S", "U", "S", "H", "I", "/", "U", "S", "D">>,
  <<"Y", "F", "I", "/", "U", "S", "D">>,
  <<"B", "A", "L", "/", "U", "S", "D">>,
  <<"A", "P", "I", "3", "/", "U", "S", "D">>,
  <<"E", "U", "R", "/", "U", "S", "D">>,
  <<"G", "B", "P", "/", "U", "S", "D">>,
  <<"J", "P", "Y", "/", "U", "S", "D">>,
  <<"A", "U", "D", "/", "U", "S", "D">>,
  <<"C", "A", "D", "/", "U", "S", "D">>,
  <<"C", "H", "F", "/", "U", "S", "D">>>>

API3_MARKET == "https://market.api3.org/api"

OEV_NETWORK == "https://oev.api3.org/api"

COINGECKO_PRICE ==
  "https://api.coingecko.com/api/v3/simple/price?ids=api3&vs_currencies=usd,eth&include_24hr_change=true"

(***************************************************************************)
(* transport: the ABI encoder, the selector table and the decoder          *)
(***************************************************************************)
\* types.join(',')
RECURSIVE join(_)
join(types) ==
  IF types = <<>> THEN ""
  ELSE IF Len(types) = 1 THEN types[1]
  ELSE types[1] \o "," \o join(Tail(types))

simpleKeccak256(sig) ==
  IF sig = "readDataFeedWithDapiName(bytes32)" THEN <<"0", "x", "8", "2", "a", "0", "c", "f", "0", "8">> ELSE
  IF sig = "readDataFeedWithId(bytes32)" THEN <<"0", "x", "4", "7", "b", "d", "3", "e", "9", "e">> ELSE
  IF sig = "dapiNameToDataFeedId(bytes32)" THEN <<"0", "x", "6", "c", "c", "5", "f", "9", "b", "0">> ELSE
  IF sig = "balanceOf(address)" THEN <<"0", "x", "7", "0", "a", "0", "8", "2", "3", "1">> ELSE
  IF sig = "totalSupply()" THEN <<"0", "x", "1", "8", "1", "6", "0", "d", "d", "d">> ELSE
  IF sig = "transfer(address,uint256)" THEN <<"0", "x", "a", "9", "0", "5", "9", "c", "b", "b">> ELSE
  IF sig = "userStake(address)" THEN <<"0", "x", "6", "6", "6", "6", "6", "a", "a", "9">> ELSE
  IF sig = "totalStake()" THEN <<"0", "x", "8", "b", "0", "e", "9", "f", "3", "f">> ELSE
  IF sig = "stake(uint256)" THEN <<"0", "x", "a", "6", "9", "4", "f", "c", "3", "a">> ELSE
  IF sig = "unstake()" THEN <<"0", "x", "2", "d", "e", "f", "6", "6", "2", "0">> ELSE
  IF sig = "apr()" THEN <<"0", "x", "3", "7", "9", "6", "5", "d", "b", "e">> ELSE
  IF sig = "getUserReward(address)" THEN <<"0", "x", "4", "4", "f", "a", "9", "a", "7", "a">> ELSE
  IF sig = "claimReward()" THEN <<"0", "x", "b", "8", "8", "a", "8", "0", "2", "f">> ELSE
  <<"0", "x", "0", "0", "0", "0", "0", "0", "0", "0">>

\* variant of getFunctionSelector that returns the 8 hex digits without '0x'
getFunctionSelectorBare(functionName, types) ==
  LET signature == functionName \o "(" \o join(types) \o ")"
      hash == simpleKeccak256(signature)
  IN  slice(hash, 2, 10)

getFunctionSelector(functionName, types) ==
  LET signature == functionName \o "(" \o join(types) \o ")"
      hash == simpleKeccak256(signature)
  IN  slice(hash, 0, 10)

\* Buffer.from(value).toString('hex') for the ASCII characters of the dAPI names
AsciiHex ==
  ("-" :> <<"2", "d">>) @@ ("/" :> <<"2", "f">>) @@ ("3" :> <<"3", "3">>) @@ ("A" :> <<"4", "1">>) @@ ("B" :> <<"4", "2">>) @@ ("C" :> <<"4", "3">>) @@ ("D" :> <<"4", "4">>) @@ ("E" :> <<"4", "5">>) @@ ("F" :> <<"4", "6">>)
  @@ ("G" :> <<"4", "7">>) @@ ("H" :> <<"4", "8">>) @@ ("I" :> <<"4", "9">>) @@ ("J" :> <<"4", "a">>) @@ ("K" :> <<"4", "b">>) @@ ("L" :> <<"4", "c">>) @@ ("M" :> <<"4", "d">>)
  @@ ("N" :> <<"4", "e">>) @@ ("O" :> <<"4", "f">>) @@ ("P" :> <<"5", "0">>) @@ ("R" :> <<"5", "2">>) @@ ("S" :> <<"5", "3">>) @@ ("T" :> <<"5", "4">>)
  @@ ("U" :> <<"5", "5">>) @@ ("V" :> <<"5", "6">>) @@ ("X" :> <<"5", "8">>) @@ ("Y" :> <<"5", "9">>) @@ ("_" :> <<"5", "f">>)

RECURSIVE utf8Hex(_)
utf8Hex(s) == IF s = <<>> THEN <<>> ELSE AsciiHex[s[1]] \o utf8Hex(Tail(s))

encodeBytes32(value) ==
  IF startsWith0x(value) THEN padEnd(sliceFrom(value, 2), 64, "0")
  ELSE padEnd(utf8Hex(value), 64, "0")

\* variant of encodeAddress that keeps the letter case of the address
encodeAddressKeepCase(value) ==
  LET addr == IF startsWith0x(value) THEN sliceFrom(value, 2) ELSE value
  IN  padStart(addr, 64, "0")

encodeAddress(value) ==
  LET addr == IF startsWith0x(value) THEN sliceFrom(value, 2) ELSE value
  IN  padStart(toLowerCase(addr), 64, "0")

\* BigInt(value) throws a SyntaxError for a string that is no integer
encodeUint256(value) ==
  LET hex(bn) == IF bn.ok THEN Ok(padStart(BigToHex(bn.value), 64, "0"))
                 ELSE Throw(Error("SyntaxError", "Cannot convert value to a BigInt"))
  IN  hex(BigIntParse(value))

\* A type other than bytes32, address and uint256 adds nothing to the encoding.
RECURSIVE encodeParameters(_, _)
encodeParameters(types, values) ==
  LET encodeOne(type, value) ==
        IF type = "bytes32" THEN Ok(encodeBytes32(value))
        ELSE IF type = "address" THEN Ok(encodeAddress(value))
        ELSE IF type = "uint256" THEN encodeUint256(value)
        ELSE Ok(<<>>)
      append(head, rest) ==
        IF ~head.ok THEN head
        ELSE IF ~rest.ok THEN rest
        ELSE Ok(head.value \o rest.value)
  IN  IF types = <<>> THEN Ok(<<>>)
      ELSE append(encodeOne(types[1], values[1]), encodeParameters(Tail(types), Tail(values)))

encodeFunctionCall(functionName, types, values) ==
  LET prefixed(selector, encodedParams) ==
        IF encodedParams.ok THEN Ok(selector \o encodedParams.value) ELSE encodedParams
  IN  prefixed(getFunctionSelector(functionName, types), encodeParameters(types, values))

clean0x(hex) == IF startsWith0x(hex) THEN sliceFrom(hex, 2) ELSE hex

BigIntOfSlice(valueHex) ==
  LET converted(bn) == IF bn.ok THEN Ok(bn.value)
                       ELSE Throw(Error("SyntaxError", "Cannot convert 0x to a BigInt"))
  IN  converted(BigIntFromHex(valueHex))

decodeInt224(hex) == BigIntOfSlice(slice(clean0x(hex), 0, 64))

\* Number(BigInt(...)): the model keeps the integer itself
decodeUint32(hex, offset) == BigIntOfSlice(slice(clean0x(hex), offset, offset + 64))

decodeUint256(hex, offset) == BigIntOfSlice(slice(clean0x(hex), offset, offset + 64))

dapiNameToBytes32(name) == <<"0", "x">> \o padEnd(utf8Hex(name), 64, "0")

getNetworkConfig(network) ==
  IF network \in DOMAIN registry THEN Ok(registry[network])
  ELSE Throw(Error("Error", "Unsupported network: " \o network))

(***************************************************************************)
(* utils/helpers                                                           *)
(***************************************************************************)
isHexOfLen(s, n) == Len(s) = n /\ \A i \in 1..Len(s) : IsHexChar(s[i])

isValidAddress(address) == startsWith0x(address) /\ isHexOfLen(sliceFrom(address, 2), 40)

isValidBytes32(value) == startsWith0x(value) /\ isHexOfLen(sliceFrom(value, 2), 64)

\* a variant that reports DAO support on every network
supportsDAOEverywhere(network) == TRUE

supportsDAO(network) == network = "ethereum"

\* a variant without the restriction to Ethereum
supportsStakingEverywhere(network) == TRUE

supportsStaking(network) == network = "ethereum"

weiToEther(value) ==
  LET integerPart == BigDivPow10(value, 18)
      fractionalPart == BigModPow10(value, 18)
      fractionalStr == padStart(BigToString(fractionalPart), 18, "0")
      t == trimTrailingZeros(fractionalStr)
      trimmed == IF t = <<>> THEN <<"0">> ELSE t
  IN  IF fractionalStr = Repeat("0", 18) THEN BigToString(integerPart)
      ELSE BigToString(integerPart) \o <<".">> \o trimmed

formatWithDecimals(bn, decimals) ==
  LET integerPart == BigDivPow10(bn, decimals)
      fractionalPart == BigModPow10(bn, decimals)
      fractionalStr == padStart(BigToString(fractionalPart), decimals, "0")
      trimmed == trimTrailingZeros(fractionalStr)
  IN  IF BigIsZero(fractionalPart) THEN BigToString(integerPart)
      ELSE BigToString(integerPart) \o <<".">> \o trimmed

\* <<q, r>> with r = q * b + r' of the magnitudes, found by subtracting b from r
RECURSIVE SubtractWhile(_, _, _)
SubtractWhile(q, r, b) ==
  IF CmpMag(r, b) < 0 THEN <<q, r>> ELSE SubtractWhile(q + 1, SubMag(r, b), b)

\* <<quotient, remainder>> of the magnitude a divided by the magnitude b # 0,
\* one decimal digit of a at a time
RECURSIVE DivModMag(_, _, _)
DivModMag(a, b, k) ==
  IF k = 0 THEN <<<<>>, <<>>>>
  ELSE LET step(prev) ==
             LET qr == SubtractWhile(0, stripZeros(Append(prev[2], a[k])), b)
             IN  <<Append(prev[1], qr[1]), qr[2]>>
       IN  step(DivModMag(a, b, k - 1))

\* bn / divisor truncates toward zero; bn % divisor takes the sign of bn
BigDiv(bn, divisor) == MkBig(bn.neg, DivModMag(bn.mag, divisor.mag, Len(bn.mag))[1])

BigMod(bn, divisor) == MkBig(bn.neg, DivModMag(bn.mag, divisor.mag, Len(bn.mag))[2])

\* formatWithDecimals with the value BigInt(10 ** decimals) handed in: 10 **
\* decimals is a double, equal to the power of ten only up to 10 ** 22
formatWithDivisor(bn, decimals, divisor) ==
  LET integerPart == BigDiv(bn, divisor)
      fractionalPart == BigMod(bn, divisor)
      fractionalStr == padStart(BigToString(fractionalPart), decimals, "0")
      trimmed == trimTrailingZeros(fractionalStr)
  IN  IF BigIsZero(fractionalPart) THEN BigToString(integerPart)
      ELSE BigToString(integerPart) \o <<".">> \o trimmed

\* parts[0] || '0' and parts[1] || '0': an empty or missing part is '0'
partOrZero(parts, i) == IF Len(parts) >= i /\ parts[i] # <<>> THEN parts[i] ELSE <<"0">>

\* a variant that pads the fraction on the wrong side
parseWithDecimalsPadStart(value, decimals) ==
  LET combined(parts) ==
        partOrZero(parts, 1) \o slice(padStart(partOrZero(parts, 2), decimals, "0"), 0, decimals)
      parsed(bn) == IF bn.ok THEN Ok(bn.value)
                    ELSE Throw(Error("SyntaxError", "Cannot convert value to a BigInt"))
  IN  parsed(BigIntParse(combined(split(value, "."))))

parseWithDecimals(value, decimals) ==
  LET combined(parts) ==
        partOrZero(parts, 1) \o slice(padEnd(partOrZero(parts, 2), decimals, "0"), 0, decimals)
      parsed(bn) == IF bn.ok THEN Ok(bn.value)
                    ELSE Throw(Error("SyntaxError", "Cannot convert value to a BigInt"))
  IN  parsed(BigIntParse(combined(split(value, "."))))

etherToWei(ether) ==
  LET combined(parts) ==
        partOrZero(parts, 1) \o slice(padEnd(partOrZero(parts, 2), 18, "0"), 0, 18)
      parsed(bn) == IF bn.ok THEN Ok(bn.value)
                    ELSE Throw(Error("SyntaxError", "Cannot convert value to a BigInt"))
  IN  parsed(BigIntParse(combined(split(ether, "."))))

getDAPIDecimals(dapiName) == DEFAULT_DECIMALS

\* name.replace(/[-_]/g, '/').toUpperCase(), on names written in upper case
normalizeDAPIName(name) ==
  [i \in 1..Len(name) |-> IF name[i] \in {"-", "_"} THEN "/" ELSE name[i]]

(***************************************************************************)
(* transport: JSON-RPC and REST requests                                   *)
(*                                                                         *)
(* The host's httpRequest either throws or resolves to a response body.    *)
(* A response is [http, error, message, code, result]: http is "throws"    *)
(* when the request throws (message is then the thrown message); error     *)
(* says that a JSON-RPC body carries an error object (message and code are *)
(* then its fields); result is the JSON-RPC result and body what a REST    *)
(* endpoint answered ("json" for the document the caller expects, "empty"  *)
(* for a document without its fields).  Every function that may send       *)
(* requests returns [reqs, res]: the requests it sent, in order, and its   *)
(* result.                                                                 *)
(***************************************************************************)
NoParams == [to |-> <<>>, data |-> <<>>]

Sent(reqs, res) == [reqs |-> reqs, res |-> res]

\* a variant that prefers a result field to an error object
makeRpcCallResultFirst(method, params, response) ==
  LET request == [kind |-> "rpc", method |-> method, url |-> "rpcEndpoint",
                  to |-> params.to, data |-> params.data,
                  failed |-> response.http = "throws" \/ response.error]
  IN  IF response.http = "throws"
      THEN Sent(<<request>>, Throw(NodeApiError(response.message, "Failed to make RPC call")))
      ELSE IF response.error /\ response.result = <<>>
      THEN Sent(<<request>>,
                Throw(NodeApiError(response.message, "RPC Error Code: " \o response.code)))
      ELSE Sent(<<request>>, Ok(response.result))

\* a variant that sends a failed request once more
makeRpcCallRetrying(method, params, response) ==
  LET request == [kind |-> "rpc", method |-> method, url |-> "rpcEndpoint",
                  to |-> params.to, data |-> params.data,
                  failed |-> response.http = "throws" \/ response.error]
  IN  IF response.http = "throws"
      THEN Sent(<<request, request>>,
                Throw(NodeApiError(response.message, "Failed to make RPC call")))
      ELSE IF response.error
      THEN Sent(<<request, request>>,
                Throw(NodeApiError(response.message, "RPC Error Code: " \o response.code)))
      ELSE Sent(<<request>>, Ok(response.result))

makeRpcCall(method, params, response) ==
  LET request == [kind |-> "rpc", method |-> method, url |-> "rpcEndpoint",
                  to |-> params.to, data |-> params.data,
                  failed |-> response.http = "throws" \/ response.error]
  IN  IF response.http = "throws"
      THEN Sent(<<request>>, Throw(NodeApiError(response.message, "Failed to make RPC call")))
      ELSE IF response.error
      THEN Sent(<<request>>,
                Throw(NodeApiError(response.message, "RPC Error Code: " \o response.code)))
      ELSE Sent(<<request>>, Ok(response.result))

\* a variant that submits a transaction instead of reading
makeEthCallSubmitting(to, data, response) ==
  makeRpcCall("eth_sendTransaction", [to |-> to, data |-> data], response)

makeEthCall(to, data, response) ==
  makeRpcCall("eth_call", [to |-> to, data |-> data], response)

makeApiRequest(method, url, response) ==
  LET request == [kind |-> "rest", method |-> method, url |-> url,
                  to |-> <<>>, data |-> <<>>, failed |-> response.http = "throws"]
  IN  IF response.http = "throws"
      THEN Sent(<<request>>, Throw(NodeApiError(response.message, "API request failed: " \o url)))
      ELSE Sent(<<request>>, Ok(response.body))

\* the decoded pair (int224 value, uint32 timestamp) of a data feed read
DecodeFeed(call) ==
  LET decoded(value, timestamp) ==
        IF ~value.ok THEN Sent(call.reqs, value)
        ELSE IF ~timestamp.ok THEN Sent(call.reqs, timestamp)
        ELSE Sent(call.reqs, Ok([value |-> value.value, timestamp |-> timestamp.value]))
  IN  IF ~call.res.ok THEN call
      ELSE decoded(decodeInt224(call.res.value), decodeUint32(call.res.value, 64))

\* the decoded uint256 of a single-word read
DecodeWord(call) ==
  IF ~call.res.ok THEN call ELSE Sent(call.reqs, decodeUint256(call.res.value, 0))

readDAPIValue(network, dapiName, response) ==
  LET read(config, data) ==
        IF ~config.ok THEN Sent(<<>>, config)
        ELSE DecodeFeed(makeEthCall(config.value.dapiServerAddress, data.value, response))
  IN  read(getNetworkConfig(network),
           encodeFunctionCall("readDataFeedWithDapiName", <<"bytes32">>,
                              <<dapiNameToBytes32(dapiName)>>))

readDataFeedById(network, feedId, response) ==
  LET read(config, data) ==
        IF ~config.ok THEN Sent(<<>>, config)
        ELSE DecodeFeed(makeEthCall(config.value.dapiServerAddress, data.value, response))
  IN  read(getNetworkConfig(network),
           encodeFunctionCall("readDataFeedWithId", <<"bytes32">>, <<feedId>>))

getTokenBalance(tokenAddress, accountAddress, response) ==
  DecodeWord(makeEthCall(tokenAddress,
                         encodeFunctionCall("balanceOf", <<"address">>, <<accountAddress>>).value,
                         response))

getTotalSupply(tokenAddress, response) ==
  DecodeWord(makeEthCall(tokenAddress, encodeFunctionCall("totalSupply", <<>>, <<>>).value,
                         response))

getUserStake(stakingPoolAddress, userAddress, response) ==
  DecodeWord(makeEthCall(stakingPoolAddress,
                         encodeFunctionCall("userStake", <<"address">>, <<userAddress>>).value,
                         response))

getTotalStake(stakingPoolAddress, response) ==
  DecodeWord(makeEthCall(stakingPoolAddress, encodeFunctionCall("totalStake", <<>>, <<>>).value,
                         response))

\* parseInt(result, 16): the longest hexadecimal prefix after an optional '0x',
\* NaN (the empty record field nan) when there is none
parseInt16(str) ==
  LET prefix(h) ==
        LET bad == {i \in 1..Len(h) : ~IsHexChar(h[i])}
            n == IF bad = {} THEN Len(h) ELSE (CHOOSE i \in bad : \A j \in bad : i <= j) - 1
        IN  IF n = 0 THEN [nan |-> TRUE, value |-> BigZero]
            ELSE [nan |-> FALSE, value |-> BigIntFromHex(SubSeq(h, 1, n)).value]
  IN  prefix(clean0x(str))

getBlockNumber(response) ==
  LET parsed(call) ==
        IF ~call.res.ok THEN call ELSE Sent(call.reqs, Ok(parseInt16(call.res.value)))
  IN  parsed(makeRpcCall("eth_blockNumber", NoParams, response))

getChainId(response) ==
  LET parsed(call) ==
        IF ~call.res.ok THEN call ELSE Sent(call.reqs, Ok(parseInt16(call.res.value)))
  IN  parsed(makeRpcCall("eth_chainId", NoParams, response))

getAPI3Price(response) ==
  LET price(call) ==
        IF ~call.res.ok THEN call
        ELSE IF call.res.value # "json"
        THEN Sent(call.reqs, Throw(Error("TypeError", "Cannot read properties of undefined")))
        ELSE Sent(call.reqs, Ok([usd |-> "usd", eth |-> "eth", change24h |-> "change"]))
  IN  price(makeApiRequest("GET", COINGECKO_PRICE, response))

(***************************************************************************)
(* actions/dao                                                             *)
(*                                                                         *)
(* An operation takes the credentials, its node parameters and env, the    *)
(* responses of the transport to its first, second, ... request.           *)
(***************************************************************************)
Fail(message) == Sent(<<>>, Throw(NodeOperationError(message)))

StakingOnlyOnEthereum(network) ==
  "Staking is only available on Ethereum mainnet. Current network: " \o network

\* (Number(v) / 100).toFixed(2)
toFixed2Div100(v) ==
  BigToString(BigDivPow10(v, 2)) \o <<".">> \o padStart(BigToString(BigModPow10(v, 2)), 2, "0")

getStakingInfoOperation(credentials, env) ==
  LET config == registry["ethereum"]
      info(totalStaked, aprCall) ==
        IF ~totalStaked.res.ok THEN totalStaked
        ELSE Sent(totalStaked.reqs \o aprCall.reqs,
                  Ok([totalStaked |-> weiToEther(totalStaked.res.value),
                      apr |-> (IF aprCall.res.ok THEN toFixed2Div100(aprCall.res.value)
                               ELSE <<"0">>) \o <<"%">>,
                      stakingPoolAddress |-> config.stakingPoolAddress]))
  IN  IF ~supportsStaking(credentials.network)
      THEN Fail(StakingOnlyOnEthereum(credentials.network))
      ELSE IF config.stakingPoolAddress = <<>> THEN Fail("Staking pool address not configured.")
      ELSE info(getTotalStake(config.stakingPoolAddress, env[1]),
                DecodeWord(makeEthCall(config.stakingPoolAddress,
                                       encodeFunctionCall("apr", <<>>, <<>>).value, env[2])))

getUserStakeOperation(credentials, userAddress, env) ==
  LET config == registry["ethereum"]
      stake(stakedAmount, rewardCall) ==
        IF ~stakedAmount.res.ok THEN stakedAmount
        ELSE Sent(stakedAmount.reqs \o rewardCall.reqs,
                  Ok([address |-> userAddress,
                      stakedAmount |-> weiToEther(stakedAmount.res.value),
                      shares |-> weiToEther(stakedAmount.res.value),
                      pendingRewards |-> weiToEther(IF rewardCall.res.ok
                                                    THEN rewardCall.res.value ELSE BigZero),
                      votingPower |-> weiToEther(stakedAmount.res.value)]))
  IN  IF ~isValidAddress(userAddress) THEN Fail("Invalid user address format.")
      ELSE IF ~supportsStaking(credentials.network)
      THEN Fail(StakingOnlyOnEthereum(credentials.network))
      ELSE IF config.stakingPoolAddress = <<>> THEN Fail("Staking pool address not configured.")
      ELSE stake(getUserStake(config.stakingPoolAddress, userAddress, env[1]),
                 DecodeWord(makeEthCall(
                   config.stakingPoolAddress,
                   encodeFunctionCall("getUserReward", <<"address">>, <<userAddress>>).value,
                   env[2])))

\* stakeAPI3 and unstakeAPI3 differ in the wording of the message and the type
StakeTransaction(credentials, amount, type, keyMessage) ==
  LET prepared(amountWei) ==
        IF ~amountWei.ok THEN Sent(<<>>, amountWei)
        ELSE Sent(<<>>, Ok([amount |-> BigToString(amountWei.value), type |-> type,
                            status |-> "pending"]))
  IN  IF credentials.privateKey = "" THEN Fail(keyMessage)
      ELSE IF ~supportsStaking(credentials.network)
      THEN Fail(StakingOnlyOnEthereum(credentials.network))
      ELSE prepared(etherToWei(amount))

stakeAPI3Operation(credentials, amount) ==
  StakeTransaction(credentials, amount, "stake",
    "Private key is required for staking. Please configure it in credentials.")

unstakeAPI3Operation(credentials, amount) ==
  StakeTransaction(credentials, amount, "unstake",
    "Private key is required for unstaking. Please configure it in credentials.")

getRewardsOperation(credentials, userAddress, env) ==
  LET config == registry["ethereum"]
      rewards(rewardCall) ==
        Sent(rewardCall.reqs,
             Ok([address |-> userAddress,
                 pendingRewards |-> weiToEther(IF rewardCall.res.ok THEN rewardCall.res.value
                                               ELSE BigZero),
                 estimatedApr |-> <<"0", "%">>]))
  IN  IF ~isValidAddress(userAddress) THEN Fail("Invalid user address format.")
      ELSE IF ~supportsStaking(credentials.network)
      THEN Fail(StakingOnlyOnEthereum(credentials.network))
      ELSE IF config.stakingPoolAddress = <<>> THEN Fail("Staking pool address not configured.")
      ELSE rewards(DecodeWord(makeEthCall(
                     config.stakingPoolAddress,
                     encodeFunctionCall("getUserReward", <<"address">>, <<userAddress>>).value,
                     env[1])))

claimRewardsOperation(credentials) ==
  IF credentials.privateKey = ""
  THEN Fail("Private key is required for claiming rewards. Please configure it in credentials.")
  ELSE IF ~supportsStaking(credentials.network)
  THEN Fail(StakingOnlyOnEthereum(credentials.network))
  ELSE Sent(<<>>, Ok([amount |-> <<"0">>, type |-> "claim", status |-> "pending"]))

\* The apy and rewardRate fields are floating-point functions of apr alone.
getAPROperation(credentials, env) ==
  LET config == registry["ethereum"]
      rate(aprCall) ==
        Sent(aprCall.reqs,
             Ok([apr |-> toFixed2Div100(IF aprCall.res.ok THEN aprCall.res.value ELSE BigZero)
                         \o <<"%">>]))
  IN  IF ~supportsStaking(credentials.network)
      THEN Fail(StakingOnlyOnEthereum(credentials.network))
      ELSE IF config.stakingPoolAddress = <<>> THEN Fail("Staking pool address not configured.")
      ELSE rate(DecodeWord(makeEthCall(config.stakingPoolAddress,
                                       encodeFunctionCall("apr", <<>>, <<>>).value, env[1])))

(***************************************************************************)
(* actions/governance                                                      *)
(***************************************************************************)
GovernanceOnlyOnEthereum == "Governance operations are only available on Ethereum mainnet"

ZERO_ADDRESS == <<"0", "x">> \o Repeat("0", 40)

\* catch (error) { throw new NodeOperationError(node, prefix + error.message) }
Rethrow(prefix, r) ==
  IF r.res.ok THEN r
  ELSE Sent(r.reqs, Throw(NodeOperationError(prefix \o r.res.err.message)))

\* generateSampleProposals(count): ids 1..count, even ones active, odd ones pending
generateSampleProposals(count) ==
  [i \in 1..count |->
     [proposalId |-> i, proposer |-> ZERO_ADDRESS, forVotes |-> <<"0">>,
      againstVotes |-> <<"0">>, status |-> IF i % 2 = 0 THEN "active" ELSE "pending"]]

\* the proposals of a well-formed API document: one active proposal
ApiProposals ==
  <<[proposalId |-> 1, proposer |-> ZERO_ADDRESS, forVotes |-> <<"5">>,
     againstVotes |-> <<"2">>, status |-> "active"]>>

\* proposals.filter(p => p.status === status)
RECURSIVE filterStatus(_, _)
filterStatus(proposals, status) ==
  IF proposals = <<>> THEN <<>>
  ELSE (IF proposals[1].status = status THEN <<proposals[1]>> ELSE <<>>)
       \o filterStatus(Tail(proposals), status)

getProposalsOperation(credentials, status, limit, env) ==
  LET api == makeApiRequest("GET", API3_MARKET \o "/governance/proposals", env[1])
      fetched == IF ~api.res.ok THEN generateSampleProposals(limit)
                 ELSE IF api.res.value = "json" THEN ApiProposals
                 ELSE <<>>
      filtered == IF status # "all" THEN filterStatus(fetched, status) ELSE fetched
  IN  IF ~supportsDAO(credentials.network) THEN Fail(GovernanceOnlyOnEthereum)
      ELSE Sent(api.reqs, Ok(slice(filtered, 0, limit)))

PlaceholderProposal(proposalId) ==
  [proposalId |-> proposalId, description |-> "Unable to fetch proposal details",
   forVotes |-> <<"0">>, againstVotes |-> <<"0">>, status |-> "pending"]

\* A document without the proposal's fields makes mapProposalStatus throw inside
\* the inner try, which is handled like an unavailable API.
getProposalOperation(credentials, proposalId, env) ==
  LET api == makeApiRequest("GET", API3_MARKET \o "/governance/proposals/:id", env[1])
      votes(call, forVotes, againstVotes) ==
        IF call.res.ok /\ forVotes.ok /\ againstVotes.ok
        THEN Sent(api.reqs \o call.reqs,
                  Ok([proposalId |-> proposalId, description |-> "On-chain proposal data",
                      forVotes |-> formatWithDecimals(forVotes.value, 18),
                      againstVotes |-> formatWithDecimals(againstVotes.value, 18),
                      status |-> "active"]))
        ELSE Sent(api.reqs \o call.reqs, Ok(PlaceholderProposal(proposalId)))
      onChain(call) ==
        votes(call, decodeUint256(call.res.value, 0), decodeUint256(call.res.value, 64))
      proposal(config, data) ==
        IF ~config.ok THEN Rethrow("Failed to get proposal: ", Sent(<<>>, config))
        ELSE IF api.res.ok /\ api.res.value = "json"
        THEN Sent(api.reqs, Ok([proposalId |-> proposalId,
                                description |-> "response.description",
                                forVotes |-> <<"5">>, againstVotes |-> <<"2">>,
                                status |-> "active"]))
        ELSE IF config.value.governanceAddress = <<>>
        THEN Sent(api.reqs, Ok(PlaceholderProposal(proposalId)))
        ELSE IF ~data.ok THEN Rethrow("Failed to get proposal: ", Sent(api.reqs, data))
        ELSE onChain(makeEthCall(config.value.governanceAddress, data.value, env[2]))
  IN  IF ~supportsDAO(credentials.network) THEN Fail(GovernanceOnlyOnEthereum)
      ELSE proposal(getNetworkConfig(credentials.network),
                    encodeFunctionCall("proposal", <<"uint256">>, <<proposalId>>))

voteOnProposalOperation(credentials, proposalId, support) ==
  LET supportValue == IF support THEN <<"1">> ELSE <<"0">>
      vote(config, data) ==
        IF ~config.ok THEN Rethrow("Failed to prepare vote: ", Sent(<<>>, config))
        ELSE IF ~data.ok THEN Rethrow("Failed to prepare vote: ", Sent(<<>>, data))
        ELSE Sent(<<>>, Ok([success |-> TRUE, proposalId |-> proposalId, support |-> support,
                            voteType |-> IF support THEN "For" ELSE "Against",
                            contract |-> config.value.governanceAddress,
                            transactionData |-> data.value,
                            network |-> credentials.network]))
  IN  IF ~supportsDAO(credentials.network) THEN Fail(GovernanceOnlyOnEthereum)
      ELSE IF credentials.privateKey = "" THEN Fail("Private key is required for voting")
      ELSE vote(getNetworkConfig(credentials.network),
                encodeFunctionCall("castVote", <<"uint256", "uint8">>,
                                   <<proposalId, supportValue>>))

\* votes = response.votes || []: a well-formed document holds one vote
getVoteRecordOperation(credentials, userAddress, env) ==
  LET api == makeApiRequest("GET", API3_MARKET \o "/governance/votes/:userAddress", env[1])
      totalVotes == IF api.res.ok /\ api.res.value = "json" THEN 1 ELSE 0
  IN  IF ~supportsDAO(credentials.network) THEN Fail(GovernanceOnlyOnEthereum)
      ELSE Sent(api.reqs, Ok([userAddress |-> userAddress, totalVotes |-> totalVotes,
                              network |-> credentials.network]))

getTreasuryOperation(credentials, env) ==
  LET holdings(config, api3Balance, reqs) ==
        Sent(reqs, Ok([balance |-> api3Balance, api3Balance |-> api3Balance,
                       ethBalance |-> <<"0">>]))
      balance(config, balanceResult) ==
        holdings(config,
                 IF balanceResult.res.ok THEN formatWithDecimals(balanceResult.res.value, 18)
                 ELSE <<"0">>,
                 balanceResult.reqs)
      treasury(config) ==
        IF ~config.ok THEN Rethrow("Failed to get treasury info: ", Sent(<<>>, config))
        ELSE IF config.value.governanceAddress # <<>> /\ config.value.api3TokenAddress # <<>>
        THEN balance(config,
                     DecodeWord(makeEthCall(
                       config.value.api3TokenAddress,
                       encodeFunctionCall("balanceOf", <<"address">>,
                                          <<config.value.governanceAddress>>).value,
                       env[1])))
        ELSE holdings(config, <<"0">>, <<>>)
  IN  IF ~supportsDAO(credentials.network) THEN Fail(GovernanceOnlyOnEthereum)
      ELSE treasury(getNetworkConfig(credentials.network))

(***************************************************************************)
(* actions/token                                                           *)
(***************************************************************************)
TokenNotAvailable(network) ==
  Throw(Error("Error", "API3 token not available on " \o network))

\* BigInt(str.replace('.', '').padEnd(18, '0') || '0')
reparseDecimal(str) ==
  LET dots == {i \in 1..Len(str) : str[i] = "."}
      k == CHOOSE i \in dots : \A j \in dots : i <= j
  IN  BigIntParse(padEnd(IF dots = {} THEN str
                         ELSE SubSeq(str, 1, k - 1) \o SubSeq(str, k + 1, Len(str)),
                         18, "0"))

getAPI3PriceOperation(env) ==
  LET price(priceData) ==
        IF ~priceData.res.ok THEN Rethrow("Failed to get API3 price: ", priceData)
        ELSE Sent(priceData.reqs,
                  Ok([usd |-> priceData.res.value.usd, eth |-> priceData.res.value.eth,
                      change24h |-> priceData.res.value.change24h,
                      volume24h |-> <<"0">>, marketCap |-> <<"0">>]))
  IN  price(getAPI3Price(env[1]))

getAPI3SupplyOperation(credentials, env) ==
  LET positive(circulatingRaw) ==
        IF BigIsPositive(circulatingRaw) THEN circulatingRaw ELSE BigZero
      report(totalSupplyRaw, reqs, stakedSupply, reparsed) ==
        IF ~reparsed.ok
        THEN Rethrow("Failed to get API3 supply: ",
                     Sent(reqs, Throw(Error("SyntaxError", "Cannot convert value to a BigInt"))))
        ELSE Sent(reqs,
                  Ok([totalSupply |-> formatWithDecimals(totalSupplyRaw.res.value, 18),
                      circulatingSupply |->
                        formatWithDecimals(
                          positive(BigSub(totalSupplyRaw.res.value, reparsed.value)), 18),
                      stakedSupply |-> stakedSupply,
                      burnedSupply |-> <<"0">>, lockedSupply |-> <<"0">>]))
      staked(totalSupplyRaw, reqs, stakedSupply) ==
        report(totalSupplyRaw, reqs, stakedSupply, reparseDecimal(stakedSupply))
      supply(hasPool, totalSupplyRaw, stakedRaw) ==
        IF ~totalSupplyRaw.res.ok
        THEN Rethrow("Failed to get API3 supply: ", totalSupplyRaw)
        ELSE staked(totalSupplyRaw,
                    totalSupplyRaw.reqs \o (IF hasPool THEN stakedRaw.reqs ELSE <<>>),
                    IF hasPool /\ stakedRaw.res.ok
                    THEN formatWithDecimals(stakedRaw.res.value, 18)
                    ELSE <<"0">>)
      token(config) ==
        IF ~config.ok THEN Rethrow("Failed to get API3 supply: ", Sent(<<>>, config))
        ELSE IF config.value.api3TokenAddress = <<>>
        THEN Rethrow("Failed to get API3 supply: ",
                     Sent(<<>>, TokenNotAvailable(credentials.network)))
        ELSE supply(config.value.stakingPoolAddress # <<>>,
                    getTotalSupply(config.value.api3TokenAddress, env[1]),
                    getTokenBalance(config.value.api3TokenAddress,
                                    config.value.stakingPoolAddress, env[2]))
  IN  token(getNetworkConfig(credentials.network))

getUserBalanceOperation(credentials, userAddress, env) ==
  LET report(balanceRaw, reqs, stakedBalance, reparsed) ==
        IF ~reparsed.ok
        THEN Rethrow("Failed to get user balance: ",
                     Sent(reqs, Throw(Error("SyntaxError", "Cannot convert value to a BigInt"))))
        ELSE Sent(reqs,
                  Ok([address |-> userAddress,
                      balance |-> formatWithDecimals(balanceRaw.res.value, 18),
                      stakedBalance |-> stakedBalance,
                      totalBalance |->
                        formatWithDecimals(BigAdd(balanceRaw.res.value, reparsed.value), 18)]))
      staked(balanceRaw, reqs, stakedBalance) ==
        report(balanceRaw, reqs, stakedBalance, reparseDecimal(stakedBalance))
      balances(hasPool, balanceRaw, stakedRaw) ==
        IF ~balanceRaw.res.ok THEN Rethrow("Failed to get user balance: ", balanceRaw)
        ELSE staked(balanceRaw,
                    balanceRaw.reqs \o (IF hasPool THEN stakedRaw.reqs ELSE <<>>),
                    IF hasPool /\ stakedRaw.res.ok
                    THEN formatWithDecimals(stakedRaw.res.value, 18)
                    ELSE <<"0">>)
      token(config) ==
        IF ~config.ok THEN Rethrow("Failed to get user balance: ", Sent(<<>>, config))
        ELSE IF config.value.api3TokenAddress = <<>>
        THEN Rethrow("Failed to get user balance: ",
                     Sent(<<>>, TokenNotAvailable(credentials.network)))
        ELSE balances(config.value.stakingPoolAddress # <<>>,
                      getTokenBalance(config.value.api3TokenAddress, userAddress, env[1]),
                      DecodeWord(makeEthCall(
                        config.value.stakingPoolAddress,
                        encodeFunctionCall("userStake", <<"address">>, <<userAddress>>).value,
                        env[2])))
  IN  IF ~isValidAddress(userAddress) THEN Fail("Invalid Ethereum address")
      ELSE token(getNetworkConfig(credentials.network))

transferAPI3Operation(credentials, toAddress, amount) ==
  LET encoded(data) ==
        IF ~data.ok THEN Rethrow("Failed to prepare transfer: ", Sent(<<>>, data))
        ELSE Sent(<<>>, Ok([to |-> toAddress, amount |-> amount, status |-> "pending"]))
      transfer(config, amountWei) ==
        IF ~config.ok THEN Rethrow("Failed to prepare transfer: ", Sent(<<>>, config))
        ELSE IF config.value.api3TokenAddress = <<>>
        THEN Rethrow("Failed to prepare transfer: ",
                     Sent(<<>>, TokenNotAvailable(credentials.network)))
        ELSE IF ~amountWei.ok
        THEN Rethrow("Failed to prepare transfer: ", Sent(<<>>, amountWei))
        ELSE encoded(encodeFunctionCall("transfer", <<"address", "uint256">>,
                                        <<toAddress, BigToString(amountWei.value)>>))
  IN  IF credentials.privateKey = "" THEN Fail("Private key is required for transfers")
      ELSE IF ~isValidAddress(toAddress) THEN Fail("Invalid recipient address")
      ELSE transfer(getNetworkConfig(credentials.network), etherToWei(amount))

(***************************************************************************)
(* actions/dapis                                                           *)
(***************************************************************************)
getDAPIValueOperation(credentials, dapiName, env) ==
  LET decimals == getDAPIDecimals(dapiName)
      report(read) ==
        IF ~read.res.ok THEN read
        ELSE Sent(read.reqs,
                  Ok([value |-> BigToString(read.res.value.value),
                      timestamp |-> read.res.value.timestamp,
                      dapiName |-> dapiName, network |-> credentials.network,
                      formattedValue |-> formatWithDecimals(read.res.value.value, decimals),
                      decimals |-> decimals]))
  IN  report(readDAPIValue(credentials.network, dapiName, env[1]))

getDAPIInfoOperation(credentials, dapiName, env) ==
  LET info(config, read) ==
        IF ~config.ok THEN Sent(<<>>, config)
        ELSE IF ~read.res.ok THEN read
        ELSE Sent(read.reqs,
                  Ok([name |-> dapiName,
                      category |-> IF Len(split(dapiName, "/")) > 1 THEN "Price Feed"
                                   ELSE "Custom",
                      decimals |-> DEFAULT_DECIMALS, network |-> credentials.network,
                      contractAddress |-> config.value.dapiServerAddress,
                      lastUpdated |-> read.res.value.timestamp]))
  IN  info(getNetworkConfig(credentials.network),
           readDAPIValue(credentials.network, dapiName, env[1]))

\* one entry of the list: the i-th common dAPI, read with the i-th response
listDAPIsItem(credentials, env, i) ==
  LET entry(read, isActive) ==
        Sent(read.reqs,
             [name |-> COMMON_DAPIS[i], network |-> credentials.network, active |-> isActive,
              price |-> IF isActive
                        THEN formatWithDecimals(read.res.value.value, DEFAULT_DECIMALS)
                        ELSE <<>>])
      item(read) ==
        entry(read, read.res.ok /\ BigIsPositive(read.res.value.timestamp)
                    /\ ~BigIsZero(read.res.value.value))
  IN  item(readDAPIValue(credentials.network, COMMON_DAPIS[i], env[i]))

listDAPIsOperation(credentials, env) ==
  LET list(items) ==
        Sent(Concat([i \in 1..Len(COMMON_DAPIS) |-> items[i].reqs]),
             Ok([i \in 1..Len(COMMON_DAPIS) |-> items[i].res]))
  IN  list([i \in 1..Len(COMMON_DAPIS) |-> listDAPIsItem(credentials, env, i)])

HEARTBEAT_SECONDS == <<8, 6, 4, 0, 0>>

getDAPIUpdateTimeOperation(credentials, dapiName, env) ==
  LET report(read) ==
        IF ~read.res.ok THEN read
        ELSE Sent(read.reqs,
                  Ok([lastUpdateTimestamp |-> read.res.value.timestamp,
                      nextExpectedUpdate |->
                        BigAdd(read.res.value.timestamp, MkBig(FALSE, HEARTBEAT_SECONDS))]))
  IN  report(readDAPIValue(credentials.network, dapiName, env[1]))

(***************************************************************************)
(* actions/dataFeeds                                                       *)
(***************************************************************************)
InvalidFeedId == "Invalid feed ID format. Must be a bytes32 value."

\* readDataFeed, getFeedHistory and getFeedBeacon report the same read
readDataFeedOperation(credentials, feedId, env) ==
  LET report(read) ==
        IF ~read.res.ok THEN read
        ELSE Sent(read.reqs,
                  Ok([feedId |-> feedId, value |-> BigToString(read.res.value.value),
                      timestamp |-> read.res.value.timestamp,
                      formattedValue |->
                        formatWithDecimals(read.res.value.value, DEFAULT_DECIMALS),
                      decimals |-> DEFAULT_DECIMALS]))
  IN  IF ~isValidBytes32(feedId) THEN Fail(InvalidFeedId)
      ELSE report(readDataFeedById(credentials.network, feedId, env[1]))

getFeedMetadataOperation(credentials, feedId) ==
  LET metadata(config) ==
        IF ~config.ok THEN Sent(<<>>, config)
        ELSE Sent(<<>>, Ok([feedId |-> feedId, name |-> slice(feedId, 0, 10),
                            description |-> "Data feed on " \o config.value.name,
                            decimals |-> DEFAULT_DECIMALS]))
  IN  IF ~isValidBytes32(feedId) THEN Fail(InvalidFeedId)
      ELSE metadata(getNetworkConfig(credentials.network))

\* the results for feedIds[i..], the next request taking the response env[k]
RECURSIVE getMultipleFeedsFrom(_, _, _, _, _)
getMultipleFeedsFrom(credentials, feedIds, env, i, k) ==
  LET item(read) ==
        IF read.res.ok
        THEN [feedId |-> feedIds[i], value |-> BigToString(read.res.value.value),
              timestamp |-> read.res.value.timestamp,
              formattedValue |-> formatWithDecimals(read.res.value.value, DEFAULT_DECIMALS)]
        ELSE [feedId |-> feedIds[i], value |-> <<"0">>, timestamp |-> BigZero,
              formattedValue |-> <<"0">>]
      push(read, rest) == Sent(read.reqs \o rest.reqs, <<item(read)>> \o rest.res)
      next(read) ==
        push(read,
             getMultipleFeedsFrom(credentials, feedIds, env, i + 1, k + Len(read.reqs)))
  IN  IF i > Len(feedIds) THEN Sent(<<>>, <<>>)
      ELSE IF ~isValidBytes32(feedIds[i])
      THEN getMultipleFeedsFrom(credentials, feedIds, env, i + 1, k)
      ELSE next(readDataFeedById(credentials.network, feedIds[i], env[k]))

getMultipleFeedsOperation(credentials, feedIdsStr, env) ==
  LET trimmed(pieces) == [i \in 1..Len(pieces) |-> trim(pieces[i])]
      report(results) == Sent(results.reqs, Ok(results.res))
  IN  report(getMultipleFeedsFrom(credentials, trimmed(split(feedIdsStr, ",")), env, 1, 1))

(***************************************************************************)
(* actions/utility                                                         *)
(***************************************************************************)
getContractAddressesOperation(credentials, network) ==
  LET addresses(config) ==
        IF ~config.ok THEN Rethrow("Failed to get contract addresses: ", Sent(<<>>, config))
        ELSE Sent(<<>>, Ok([network |-> network, chainId |-> config.value.chainId,
                            dapiServer |-> config.value.dapiServerAddress,
                            api3Token |-> config.value.api3TokenAddress,
                            stakingPool |-> config.value.stakingPoolAddress,
                            governance |-> config.value.governanceAddress]))
  IN  addresses(getNetworkConfig(network))

\* '0x82a0cf08' + '0'.repeat(64)
EMPTY_NAME_READ ==
  <<"0", "x", "8", "2", "a", "0", "c", "f", "0", "8">> \o Repeat("0", 64)

\* clock is the outcome of comparing the block's timestamp with Date.now():
\* "synced", "syncing" or "behind".  The result of eth_getBlockByNumber is the
\* block's timestamp field, empty when the block or the field is missing.
getAPIHealthOperation(credentials, clock, env) ==
  LET blockNumberResult == makeRpcCall("eth_blockNumber", NoParams, env[1])
      blockResult == makeRpcCall("eth_getBlockByNumber",
                                 [to |-> <<>>, data |-> blockNumberResult.res.value], env[2])
      rpcReqs == blockNumberResult.reqs
                 \o (IF blockNumberResult.res.ok THEN blockResult.reqs ELSE <<>>)
      rpcHealthy == blockNumberResult.res.ok /\ blockResult.res.ok
      hasTimestamp == rpcHealthy /\ blockResult.res.value # <<>>
      config == getNetworkConfig(credentials.network)
      dapiCall == makeRpcCall("eth_call",
                              [to |-> config.value.dapiServerAddress, data |-> EMPTY_NAME_READ],
                              env[3])
      dapiReqs == IF rpcHealthy /\ config.ok THEN dapiCall.reqs ELSE <<>>
      dapiServerHealthy == rpcHealthy
      k == Len(rpcReqs) + Len(dapiReqs)
      market == makeApiRequest("GET", API3_MARKET \o "/health", env[k + 1])
      oev == makeApiRequest("GET", OEV_NETWORK \o "/health", env[k + 2])
      healthyCount == (IF rpcHealthy THEN 1 ELSE 0) + (IF dapiServerHealthy THEN 1 ELSE 0)
                      + (IF market.res.ok THEN 1 ELSE 0)
  IN  Sent(rpcReqs \o dapiReqs \o market.reqs \o oev.reqs,
           Ok([status |-> IF healthyCount = 3 THEN "healthy"
                          ELSE IF healthyCount >= 1 THEN "degraded" ELSE "down",
               lastBlockTime |-> IF hasTimestamp THEN parseInt16(blockResult.res.value)
                                 ELSE [nan |-> FALSE, value |-> BigZero],
               syncStatus |-> IF hasTimestamp THEN clock ELSE "behind",
               services |-> [dapiServer |-> dapiServerHealthy, oevNetwork |-> oev.res.ok,
                             governance |-> rpcHealthy]]))

(***************************************************************************)
(* actions/oev, actions/airnodes, actions/subscriptions: prepared writes   *)
(***************************************************************************)
placeOEVBidOperation(credentials, auctionId, bidAmount) ==
  LET bid(amountWei) ==
        IF ~amountWei.ok THEN Sent(<<>>, amountWei)
        ELSE Sent(<<>>, Ok([auctionId |-> auctionId, bidder |-> ZERO_ADDRESS,
                            amount |-> BigToString(amountWei.value), status |-> "pending"]))
  IN  IF credentials.privateKey = ""
      THEN Fail("Private key is required for placing bids. Please configure it in credentials.")
      ELSE bid(etherToWei(bidAmount))

\* parametersAreJson: whether JSON.parse accepts the parameters string
makeAirnodeRequestOperation(credentials, airnodeAddress, endpointId, parametersAreJson) ==
  IF ~isValidAddress(airnodeAddress) THEN Fail("Invalid Airnode address format.")
  ELSE IF ~isValidBytes32(endpointId) THEN Fail("Invalid endpoint ID format. Must be bytes32.")
  ELSE IF ~parametersAreJson THEN Fail("Invalid parameters JSON format.")
  ELSE Sent(<<>>, Ok([airnodeAddress |-> airnodeAddress, endpointId |-> endpointId,
                      status |-> "pending"]))

baseCost(tier) == IF tier = "enterprise" THEN 100 ELSE IF tier = "pro" THEN 50 ELSE 10

\* (baseCost * days / 30).toFixed(2), in hundredths
costOf(tier, days) == (baseCost(tier) * days * 100 + 15) \div 30

createSubscriptionOperation(credentials, dapiName, duration, tier) ==
  IF credentials.privateKey = "" THEN Fail("Private key is required to create subscriptions")
  ELSE Sent(<<>>, Ok([dapiName |-> dapiName, duration |-> duration,
                      cost |-> costOf(tier, duration), status |-> "pending"]))

\* A well-formed document names the subscription's dAPI and its tier ("pro").
renewSubscriptionOperation(credentials, subscriptionId, additionalDays, env) ==
  LET api == makeApiRequest("GET", API3_MARKET \o "/subscriptions/:id", env[1])
      found == api.res.ok /\ api.res.value = "json"
      tier == IF found THEN "pro" ELSE "basic"
  IN  IF credentials.privateKey = "" THEN Fail("Private key is required to renew subscriptions")
      ELSE Sent(api.reqs, Ok([subscriptionId |-> subscriptionId,
                              dapiName |-> IF found THEN "response.dapiName" ELSE "Unknown",
                              duration |-> additionalDays,
                              cost |-> costOf(tier, additionalDays), status |-> "pending"]))

(***************************************************************************)
(* Api3Trigger: the polls that read a dAPI                                 *)
(*                                                                         *)
(* pollData is the workflow's static data of the trigger node, a function  *)
(* from keys <<field, normalizedName>> to the stored values.  A poll       *)
(* returns [reqs, res, pollData]: res is Ok of the emitted events (the     *)
(* empty sequence when the poll returns null).                             *)
(***************************************************************************)
Has(pollData, key) == key \in DOMAIN pollData

Put(pollData, key, v) ==
  [k \in DOMAIN pollData \cup {key} |-> IF k = key THEN v ELSE pollData[k]]

Polled(reqs, res, pollData) == [reqs |-> reqs, res |-> res, pollData |-> pollData]

\* magnitude * m for a small multiplier m
MulSmall(mag, m) == LimbsToDigits(MulAdd(DigitsToLimbs(mag), m, 0))

pollDAPIPriceUpdate(credentials, dapiName, customDapiName, pollData, env) ==
  LET effectiveDapiName == IF customDapiName # <<>> THEN customDapiName ELSE dapiName
      emit(normalizedName, dapiValue) ==
        LET tsKey == <<"lastTimestamp", normalizedName>>
            valKey == <<"lastValue", normalizedName>>
            currentTimestamp == dapiValue.res.value.timestamp
            stored == Put(Put(pollData, tsKey, currentTimestamp),
                          valKey, BigToString(dapiValue.res.value.value))
        IN  IF ~dapiValue.res.ok THEN Polled(dapiValue.reqs, dapiValue.res, pollData)
            ELSE IF /\ Has(pollData, tsKey)
                    /\ ~BigIsZero(pollData[tsKey])
                    /\ CmpMag(currentTimestamp.mag, pollData[tsKey].mag) > 0
            THEN Polled(dapiValue.reqs,
                        Ok(<<[event |-> "dAPIPriceUpdate", dapiName |-> normalizedName,
                              value |-> BigToString(dapiValue.res.value.value),
                              formattedValue |->
                                formatWithDecimals(dapiValue.res.value.value, DEFAULT_DECIMALS),
                              previousTimestamp |-> pollData[tsKey],
                              timestamp |-> currentTimestamp,
                              network |-> credentials.network]>>),
                        stored)
            ELSE Polled(dapiValue.reqs, Ok(<<>>), stored)
      read(normalizedName) ==
        emit(normalizedName, readDAPIValue(credentials.network, normalizedName, env[1]))
  IN  read(normalizeDAPIName(effectiveDapiName))

\* a variant that reports every change of the value
deviationReachedIgnoringThreshold(lastRaw, currentRaw, threshold) == lastRaw # currentRaw

\* Math.abs((currentNum - lastNum) / lastNum) * 100 >= threshold, on the exact
\* values: a zero baseline gives NaN (never >=) for a zero current value and
\* Infinity otherwise.
deviationReached(lastRaw, currentRaw, threshold) ==
  IF BigIsZero(lastRaw) THEN ~BigIsZero(currentRaw)
  ELSE CmpMag(MulSmall(BigSub(currentRaw, lastRaw).mag, 100),
              MulSmall(lastRaw.mag, threshold)) >= 0

pollDAPIDeviationThreshold(credentials, dapiName, customDapiName, threshold, pollData, env) ==
  LET effectiveDapiName == IF customDapiName # <<>> THEN customDapiName ELSE dapiName
      emit(normalizedName, dapiValue, formattedValue) ==
        LET baseKey == <<"baseValue", normalizedName>>
        IN  IF ~Has(pollData, baseKey)
            THEN Polled(dapiValue.reqs, Ok(<<>>), Put(pollData, baseKey, formattedValue))
            ELSE IF deviationReached(
                      parseWithDecimals(pollData[baseKey], DEFAULT_DECIMALS).value,
                      dapiValue.res.value.value, threshold)
            THEN Polled(dapiValue.reqs,
                        Ok(<<[event |-> "dAPIDeviationThreshold", dapiName |-> normalizedName,
                              previousValue |-> pollData[baseKey],
                              currentValue |-> formattedValue,
                              threshold |-> threshold,
                              timestamp |-> dapiValue.res.value.timestamp,
                              network |-> credentials.network]>>),
                        Put(pollData, baseKey, formattedValue))
            ELSE Polled(dapiValue.reqs, Ok(<<>>), pollData)
      compare(normalizedName, dapiValue) ==
        IF ~dapiValue.res.ok THEN Polled(dapiValue.reqs, dapiValue.res, pollData)
        ELSE emit(normalizedName, dapiValue,
                  formatWithDecimals(dapiValue.res.value.value, DEFAULT_DECIMALS))
      read(normalizedName) ==
        compare(normalizedName, readDAPIValue(credentials.network, normalizedName, env[1]))
  IN  read(normalizeDAPIName(effectiveDapiName))

\* auctions.filter(a => !lastKnownAuctions.includes(a.auctionId))
RECURSIVE filterUnknown(_, _)
filterUnknown(ids, known) ==
  IF ids = <<>> THEN <<>>
  ELSE (IF \E i \in 1..Len(known) : known[i] = ids[1] THEN <<>> ELSE <<ids[1]>>)
       \o filterUnknown(Tail(ids), known)

\* An auction or a proposal is modelled by its id; the body of the response is
\* the list of ids, empty when the field is missing.  A failed request is
\* swallowed and the poll returns null.
pollKnownIds(event, knownKey, url, network, pollData, env) ==
  LET api == makeApiRequest("GET", url, env[1])
      diff(ids, lastKnown) ==
        LET events(new) == [i \in 1..Len(new) |->
                              [event |-> event, id |-> new[i], network |-> network]]
        IN  Polled(api.reqs, Ok(events(filterUnknown(ids, lastKnown))),
                   Put(pollData, knownKey, ids))
  IN  IF ~api.res.ok THEN Polled(api.reqs, Ok(<<>>), pollData)
      ELSE diff(api.res.value, IF Has(pollData, knownKey) THEN pollData[knownKey] ELSE <<>>)

pollOEVAuctionStarted(credentials, pollData, env) ==
  pollKnownIds("oevAuctionStarted", <<"knownAuctions">>, OEV_NETWORK \o "/auctions/active",
               credentials.network, pollData, env)

pollGovernanceProposal(credentials, pollData, env) ==
  IF credentials.network # "ethereum" THEN Polled(<<>>, Ok(<<>>), pollData)
  ELSE pollKnownIds("governanceProposal", <<"knownProposals">>,
                    API3_MARKET \o "/governance/proposals", credentials.network, pollData, env)

\* every path returns null and nothing is stored
pollStakeRewardAvailable(credentials, userAddress, pollData) == Polled(<<>>, Ok(<<>>), pollData)

(***************************************************************************)
(* The node classes: Api3.execute and Api3Trigger.poll                     *)
(***************************************************************************)
LICENSING_NOTICE == "[Velocity BPA Licensing Notice]"

\* Api3Trigger.poll after the licensing notice: the dispatch on the trigger
\* type, with every error wrapped as a trigger error
triggerPoll(triggerType, credentials, params, pollData, env) ==
  LET wrapped(r) ==
        IF r.res.ok THEN r
        ELSE Polled(r.reqs,
                    Throw(NodeOperationError("Trigger error: " \o r.res.err.message)),
                    r.pollData)
  IN  IF triggerType = "dAPIPriceUpdate"
      THEN wrapped(pollDAPIPriceUpdate(credentials, params.dapiName, <<>>, pollData, env))
      ELSE IF triggerType = "dAPIDeviationThreshold"
      THEN wrapped(pollDAPIDeviationThreshold(credentials, params.dapiName, <<>>,
                                              params.deviationThreshold, pollData, env))
      ELSE IF triggerType = "oevAuctionStarted"
      THEN wrapped(pollOEVAuctionStarted(credentials, pollData, env))
      ELSE IF triggerType = "governanceProposal"
      THEN wrapped(pollGovernanceProposal(credentials, pollData, env))
      ELSE IF triggerType = "stakeRewardAvailable"
      THEN wrapped(pollStakeRewardAvailable(credentials, <<>>, pollData))
      ELSE wrapped(Polled(<<>>, Throw(NodeOperationError("Unknown trigger type: " \o triggerType)),
                          pollData))

\* execute of actions/dataFeeds, the item's parameter being its feed id(s)
\* for readDataFeed, getFeedMetadata, getMultipleFeeds and an operation name
\* outside the switch
dataFeedsExecute(operation, credentials, parameter, env) ==
  IF operation = "readDataFeed" THEN readDataFeedOperation(credentials, parameter, env)
  ELSE IF operation = "getFeedMetadata" THEN getFeedMetadataOperation(credentials, parameter)
  ELSE IF operation = "getMultipleFeeds"
  THEN getMultipleFeedsOperation(credentials, parameter, env)
  ELSE Fail("Unknown operation: " \o operation)

\* Array.isArray(result): getMultipleFeeds returns a list, the others an object
ReturnsArray(resource, operation) == resource = "dataFeeds" /\ operation = "getMultipleFeeds"

buildReturnData(data, isArray) ==
  IF isArray THEN [k \in 1..Len(data) |-> [json |-> data[k]]]
  ELSE <<[json |-> data]>>

\* the responses left after n requests
Rest(env, n) == SubSeq(env, n + 1, Len(env))

\* the loop of Api3.execute with a catch block that returns what it has after
\* the error record instead of continuing with the next item
RECURSIVE executeItemsUntilFailure(_, _, _, _, _, _, _)
executeItemsUntilFailure(resource, operation, credentials, items, continueOnFail, env, i) ==
  LET push(reqs, records, rest) ==
        IF rest.res.ok THEN Sent(reqs \o rest.reqs, Ok(records \o rest.res.value))
        ELSE Sent(reqs \o rest.reqs, rest.res)
      next(result, records) ==
        push(result.reqs, records,
             executeItemsUntilFailure(resource, operation, credentials, items,
                                      continueOnFail, Rest(env, Len(result.reqs)), i + 1))
      handle(result) ==
        IF result.res.ok
        THEN next(result, buildReturnData(result.res.value, ReturnsArray(resource, operation)))
        ELSE IF continueOnFail
        THEN Sent(result.reqs, Ok(<<[json |-> [error |-> result.res.err.message],
                                     pairedItem |-> [item |-> i - 1]]>>))
        ELSE Sent(result.reqs, Throw(result.res.err))
  IN  IF i > Len(items) THEN Sent(<<>>, Ok(<<>>))
      ELSE IF resource = "dataFeeds"
      THEN handle(dataFeedsExecute(operation, credentials, items[i], env))
      ELSE handle(Fail("Unknown resource: " \o resource))

\* the loop of Api3.execute from item i on (i counts from 1, pairedItem from 0),
\* for the dataFeeds resource and for a resource name outside the switch
RECURSIVE executeItems(_, _, _, _, _, _, _)
executeItems(resource, operation, credentials, items, continueOnFail, env, i) ==
  LET push(reqs, records, rest) ==
        IF rest.res.ok THEN Sent(reqs \o rest.reqs, Ok(records \o rest.res.value))
        ELSE Sent(reqs \o rest.reqs, rest.res)
      next(result, records) ==
        push(result.reqs, records,
             executeItems(resource, operation, credentials, items, continueOnFail,
                          Rest(env, Len(result.reqs)), i + 1))
      handle(result) ==
        IF result.res.ok
        THEN next(result, buildReturnData(result.res.value, ReturnsArray(resource, operation)))
        ELSE IF continueOnFail
        THEN next(result, <<[json |-> [error |-> result.res.err.message],
                             pairedItem |-> [item |-> i - 1]]>>)
        ELSE Sent(result.reqs, Throw(result.res.err))
  IN  IF i > Len(items) THEN Sent(<<>>, Ok(<<>>))
      ELSE IF resource = "dataFeeds"
      THEN handle(dataFeedsExecute(operation, credentials, items[i], env))
      ELSE handle(Fail("Unknown resource: " \o resource))

(***************************************************************************)
(* The inputs: credentials, node parameters and transport responses        *)
(***************************************************************************)
MaxSwitch == 2

MaxLimit == 2

MaxDays == 2

MaxThreshold == 2

Networks == {"ethereum", "polygon", "solana"}

Credentials == [network : Networks, privateKey : {"", "0xkey"}]

VALID_ADDRESS == <<"0", "x", "A", "b">> \o Repeat("1", 38)

Addresses == {VALID_ADDRESS, <<"0", "x", "1", "2">>}

VALID_FEED_ID == <<"0", "x", "f", "e">> \o Repeat("0", 62)

FeedIds == {VALID_FEED_ID, <<"0", "x", "f", "e">>}

FeedIdLists ==
  {VALID_FEED_ID, VALID_FEED_ID \o <<",", " ">> \o VALID_FEED_ID,
   <<"0", "x", "f", "e", ",">> \o VALID_FEED_ID}

ETH_USD == <<"E", "T", "H", "/", "U", "S", "D">>

DapiNames == {ETH_USD, <<"A", "P", "I", "3">>}

PollNames == {ETH_USD, <<"E", "T", "H", "-", "U", "S", "D">>}

Amounts == {<<"1", ".", "5">>, <<"2">>, <<"1", "e", "3">>}

ProposalIds == {<<"7">>, <<"n", "o", "n", "e">>}

Word(hex) == padStart(hex, 64, "0")

\* (value 1.5 * 10^18, timestamp 100) and (value 2 * 10^18, timestamp 200)
RESULT_A ==
  <<"0", "x">>
  \o Word(<<"1", "4", "d", "1", "1", "2", "0", "d", "7", "b", "1", "6", "0", "0", "0", "0">>)
  \o Word(<<"6", "4">>)

RESULT_B ==
  <<"0", "x">>
  \o Word(<<"1", "b", "c", "1", "6", "d", "6", "7", "4", "e", "c", "8", "0", "0", "0", "0">>)
  \o Word(<<"c", "8">>)

Resolves(result, body) ==
  [http |-> "ok", error |-> FALSE, message |-> "", code |-> "", result |-> result,
   body |-> body]

RpcError ==
  [http |-> "ok", error |-> TRUE, message |-> "execution reverted", code |-> "-32000",
   result |-> <<>>, body |-> "empty"]

HttpThrows ==
  [http |-> "throws", error |-> FALSE, message |-> "connect ECONNREFUSED", code |-> "",
   result |-> <<>>, body |-> "empty"]

Responses ==
  {Resolves(RESULT_A, "json"), Resolves(RESULT_B, "json"), Resolves(<<"0", "x">>, "empty"),
   RpcError, HttpThrows}

\* a body with an error object and a result field
RpcErrorWithResult ==
  [http |-> "ok", error |-> TRUE, message |-> "header not found", code |-> "-32001",
   result |-> RESULT_A, body |-> "json"]

RpcResponses == Responses \cup {RpcErrorWithResult}

\* the responses to the n requests an operation can send: the first k requests
\* get one response, the later ones another
Envs(n) ==
  {[i \in 1..n |-> IF i <= k THEN a ELSE b] :
     a \in Responses, b \in Responses, k \in 1..MaxSwitch}

\* the same for the operations that send many requests, with one successful value
BulkEnvs(n) ==
  {[i \in 1..n |-> IF i <= k THEN a ELSE b] :
     a \in Responses \ {Resolves(RESULT_B, "json")},
     b \in Responses \ {Resolves(RESULT_B, "json")}, k \in 1..MaxSwitch}

(***************************************************************************)
(* The state machine: one invocation at a time runs from idle to done      *)
(***************************************************************************)
Init ==
  /\ pc = "idle"
  /\ op = ""
  /\ input = <<>>
  /\ requests = <<>>
  /\ outcome = <<>>
  /\ staticData = <<>>
  /\ licensingNoticeLogged = FALSE
  /\ triggerNoticeLogged = FALSE
  /\ console = <<>>
  /\ emittedIds = {}
  /\ registry = NETWORK_CONFIGS

\* Run with a write through the reference that getNetworkConfig returns: the
\* invocation deletes the entry of its own network from the registry
RunWritingRegistry(o, in, r) ==
  /\ pc' = "done"
  /\ op' = o
  /\ input' = in
  /\ requests' = r.reqs
  /\ outcome' = r.res
  /\ registry' = [n \in DOMAIN registry \ {"ethereum"} |-> registry[n]]
  /\ UNCHANGED <<staticData, licensingNoticeLogged, triggerNoticeLogged, console,
                 emittedIds>>

Run(o, in, r) ==
  /\ pc' = "done"
  /\ op' = o
  /\ input' = in
  /\ requests' = r.reqs
  /\ outcome' = r.res
  /\ UNCHANGED <<staticData, processVars>>

Poll(o, in, r) ==
  /\ pc' = "done"
  /\ op' = o
  /\ input' = in
  /\ requests' = r.reqs
  /\ outcome' = r.res
  /\ staticData' = r.pollData
  /\ UNCHANGED processVars

Return ==
  /\ pc = "done"
  /\ pc' = "idle"
  /\ op' = ""
  /\ input' = <<>>
  /\ requests' = <<>>
  /\ outcome' = <<>>
  /\ UNCHANGED <<staticData, processVars>>

\* --- calls of the domain read helpers of the transport -------------------
TransportReadDAPIValue ==
  \E n \in Networks, d \in DapiNames, r \in Responses :
    /\ pc = "idle"
    /\ Run("transport.readDAPIValue", [network |-> n, dapiName |-> d], readDAPIValue(n, d, r))

TransportReadDataFeedById ==
  \E n \in Networks, r \in Responses :
    /\ pc = "idle"
    /\ Run("transport.readDataFeedById", [network |-> n, feedId |-> VALID_FEED_ID],
           readDataFeedById(n, VALID_FEED_ID, r))

TransportGetTokenBalance ==
  \E a \in Addresses, r \in Responses :
    /\ pc = "idle"
    /\ Run("transport.getTokenBalance", [tokenAddress |-> API3_TOKEN, accountAddress |-> a],
           getTokenBalance(API3_TOKEN, a, r))

TransportGetTotalSupply ==
  \E r \in Responses :
    /\ pc = "idle"
    /\ Run("transport.getTotalSupply", [tokenAddress |-> API3_TOKEN],
           getTotalSupply(API3_TOKEN, r))

TransportGetUserStake ==
  \E a \in Addresses, r \in Responses :
    /\ pc = "idle"
    /\ Run("transport.getUserStake", [stakingPoolAddress |-> STAKING_POOL, userAddress |-> a],
           getUserStake(STAKING_POOL, a, r))

TransportGetTotalStake ==
  \E r \in Responses :
    /\ pc = "idle"
    /\ Run("transport.getTotalStake", [stakingPoolAddress |-> STAKING_POOL],
           getTotalStake(STAKING_POOL, r))

TransportGetBlockNumber ==
  \E r \in Responses :
    /\ pc = "idle"
    /\ Run("transport.getBlockNumber", <<>>, getBlockNumber(r))

TransportGetChainId ==
  \E r \in Responses :
    /\ pc = "idle"
    /\ Run("transport.getChainId", <<>>, getChainId(r))

\* a JSON-RPC call by itself, also with bodies that carry both error and result
TransportMakeRpcCall ==
  \E method \in {"eth_call", "eth_blockNumber"}, r \in RpcResponses :
    /\ pc = "idle"
    /\ Run("transport.makeRpcCall", [method |-> method, response |-> r],
           makeRpcCall(method, NoParams, r))

\* --- dao ------------------------------------------------------------------
DaoGetStakingInfo ==
  \E c \in Credentials, env \in Envs(2) :
    /\ pc = "idle"
    /\ Run("dao.getStakingInfo", [credentials |-> c], getStakingInfoOperation(c, env))

DaoGetUserStake ==
  \E c \in Credentials, a \in Addresses, env \in Envs(2) :
    /\ pc = "idle"
    /\ Run("dao.getUserStake", [credentials |-> c, userAddress |-> a],
           getUserStakeOperation(c, a, env))

DaoStakeAPI3 ==
  \E c \in Credentials, a \in Amounts :
    /\ pc = "idle"
    /\ Run("dao.stakeAPI3", [credentials |-> c, amount |-> a], stakeAPI3Operation(c, a))

DaoUnstakeAPI3 ==
  \E c \in Credentials, a \in Amounts :
    /\ pc = "idle"
    /\ Run("dao.unstakeAPI3", [credentials |-> c, amount |-> a], unstakeAPI3Operation(c, a))

DaoGetRewards ==
  \E c \in Credentials, a \in Addresses, env \in Envs(1) :
    /\ pc = "idle"
    /\ Run("dao.getRewards", [credentials |-> c, userAddress |-> a],
           getRewardsOperation(c, a, env))

DaoClaimRewards ==
  \E c \in Credentials :
    /\ pc = "idle"
    /\ Run("dao.claimRewards", [credentials |-> c], claimRewardsOperation(c))

DaoGetAPR ==
  \E c \in Credentials, env \in Envs(1) :
    /\ pc = "idle"
    /\ Run("dao.getAPR", [credentials |-> c], getAPROperation(c, env))

\* --- governance -----------------------------------------------------------
GovernanceGetProposals ==
  \E c \in Credentials, st \in {"all", "active"}, limit \in 1..MaxLimit, env \in Envs(1) :
    /\ pc = "idle"
    /\ Run("governance.getProposals", [credentials |-> c, proposalStatus |-> st, limit |-> limit],
           getProposalsOperation(c, st, limit, env))

GovernanceGetProposal ==
  \E c \in Credentials, id \in ProposalIds, env \in Envs(2) :
    /\ pc = "idle"
    /\ Run("governance.getProposal", [credentials |-> c, proposalId |-> id],
           getProposalOperation(c, id, env))

GovernanceVoteOnProposal ==
  \E c \in Credentials, id \in ProposalIds, support \in BOOLEAN :
    /\ pc = "idle"
    /\ Run("governance.voteOnProposal",
           [credentials |-> c, proposalId |-> id, voteSupport |-> support],
           voteOnProposalOperation(c, id, support))

GovernanceGetVoteRecord ==
  \E c \in Credentials, a \in Addresses, env \in Envs(1) :
    /\ pc = "idle"
    /\ Run("governance.getVoteRecord", [credentials |-> c, userAddress |-> a],
           getVoteRecordOperation(c, a, env))

GovernanceGetTreasury ==
  \E c \in Credentials, env \in Envs(1) :
    /\ pc = "idle"
    /\ Run("governance.getTreasury", [credentials |-> c], getTreasuryOperation(c, env))

\* --- token ----------------------------------------------------------------
TokenGetAPI3Price ==
  \E c \in Credentials, env \in Envs(1) :
    /\ pc = "idle"
    /\ Run("token.getAPI3Price", [credentials |-> c], getAPI3PriceOperation(env))

TokenGetAPI3Supply ==
  \E c \in Credentials, env \in Envs(2) :
    /\ pc = "idle"
    /\ Run("token.getAPI3Supply", [credentials |-> c], getAPI3SupplyOperation(c, env))

TokenGetUserBalance ==
  \E c \in Credentials, a \in Addresses, env \in Envs(2) :
    /\ pc = "idle"
    /\ Run("token.getUserBalance", [credentials |-> c, userAddress |-> a],
           getUserBalanceOperation(c, a, env))

TokenTransferAPI3 ==
  \E c \in Credentials, to \in Addresses, a \in Amounts :
    /\ pc = "idle"
    /\ Run("token.transferAPI3", [credentials |-> c, toAddress |-> to, amount |-> a],
           transferAPI3Operation(c, to, a))

\* --- dapis ----------------------------------------------------------------
DapisGetDAPIValue ==
  \E c \in Credentials, d \in DapiNames, env \in Envs(1) :
    /\ pc = "idle"
    /\ Run("dapis.getDAPIValue", [credentials |-> c, dapiName |-> d],
           getDAPIValueOperation(c, d, env))

DapisGetDAPIInfo ==
  \E c \in Credentials, d \in DapiNames, env \in Envs(1) :
    /\ pc = "idle"
    /\ Run("dapis.getDAPIInfo", [credentials |-> c, dapiName |-> d],
           getDAPIInfoOperation(c, d, env))

DapisListDAPIs ==
  \E c \in Credentials, env \in BulkEnvs(Len(COMMON_DAPIS)) :
    /\ pc = "idle"
    /\ Run("dapis.listDAPIs", [credentials |-> c], listDAPIsOperation(c, env))

DapisGetDAPIUpdateTime ==
  \E c \in Credentials, d \in DapiNames, env \in Envs(1) :
    /\ pc = "idle"
    /\ Run("dapis.getDAPIUpdateTime", [credentials |-> c, dapiName |-> d],
           getDAPIUpdateTimeOperation(c, d, env))

\* --- dataFeeds ------------------------------------------------------------
DataFeedsReadDataFeed ==
  \E c \in Credentials, f \in FeedIds, env \in Envs(1) :
    /\ pc = "idle"
    /\ Run("dataFeeds.readDataFeed", [credentials |-> c, feedId |-> f],
           readDataFeedOperation(c, f, env))

DataFeedsGetFeedMetadata ==
  \E c \in Credentials, f \in FeedIds :
    /\ pc = "idle"
    /\ Run("dataFeeds.getFeedMetadata", [credentials |-> c, feedId |-> f],
           getFeedMetadataOperation(c, f))

DataFeedsGetMultipleFeeds ==
  \E c \in Credentials, fs \in FeedIdLists, env \in Envs(2) :
    /\ pc = "idle"
    /\ Run("dataFeeds.getMultipleFeeds", [credentials |-> c, feedIds |-> fs],
           getMultipleFeedsOperation(c, fs, env))

\* --- utility --------------------------------------------------------------
UtilityGetContractAddresses ==
  \E c \in Credentials :
    /\ pc = "idle"
    /\ Run("utility.getContractAddresses", [credentials |-> c],
           getContractAddressesOperation(c, c.network))

UtilityGetAPIHealth ==
  \E c \in Credentials, clock \in {"synced", "syncing", "behind"}, env \in BulkEnvs(5) :
    /\ pc = "idle"
    /\ Run("utility.getAPIHealth", [credentials |-> c], getAPIHealthOperation(c, clock, env))

\* --- oev, airnodes, subscriptions -----------------------------------------
OevPlaceOEVBid ==
  \E c \in Credentials, a \in Amounts :
    /\ pc = "idle"
    /\ Run("oev.placeOEVBid", [credentials |-> c, bidAmount |-> a],
           placeOEVBidOperation(c, <<"a", "1">>, a))

AirnodesMakeAirnodeRequest ==
  \E c \in Credentials, a \in Addresses, e \in FeedIds, json \in BOOLEAN :
    /\ pc = "idle"
    /\ Run("airnodes.makeAirnodeRequest",
           [credentials |-> c, airnodeAddress |-> a, endpointId |-> e, parametersAreJson |-> json],
           makeAirnodeRequestOperation(c, a, e, json))

SubscriptionsCreateSubscription ==
  \E c \in Credentials, days \in 1..MaxDays, tier \in {"basic", "pro", "enterprise"} :
    /\ pc = "idle"
    /\ Run("subscriptions.createSubscription",
           [credentials |-> c, duration |-> days, tier |-> tier],
           createSubscriptionOperation(c, ETH_USD, days, tier))

SubscriptionsRenewSubscription ==
  \E c \in Credentials, days \in 1..MaxDays, env \in Envs(1) :
    /\ pc = "idle"
    /\ Run("subscriptions.renewSubscription", [credentials |-> c, additionalDays |-> days],
           renewSubscriptionOperation(c, <<"s", "1">>, days, env))

\* --- trigger polls --------------------------------------------------------
TriggerDAPIPriceUpdate ==
  \E c \in Credentials, d \in PollNames, r \in Responses :
    /\ pc = "idle"
    /\ Poll("trigger.dAPIPriceUpdate", [credentials |-> c, dapiName |-> d],
            pollDAPIPriceUpdate(c, d, <<>>, staticData, <<r>>))

TriggerDAPIDeviationThreshold ==
  \E c \in Credentials, d \in PollNames, t \in 1..MaxThreshold, r \in Responses :
    /\ pc = "idle"
    /\ Poll("trigger.dAPIDeviationThreshold",
            [credentials |-> c, dapiName |-> d, deviationThreshold |-> t],
            pollDAPIDeviationThreshold(c, d, <<>>, t, staticData, <<r>>))

Next ==
  \/ TransportReadDAPIValue
  \/ TransportReadDataFeedById
  \/ TransportGetTokenBalance
  \/ TransportGetTotalSupply
  \/ TransportGetUserStake
  \/ TransportGetTotalStake
  \/ TransportGetBlockNumber
  \/ TransportGetChainId
  \/ TransportMakeRpcCall
  \/ DaoGetStakingInfo
  \/ DaoGetUserStake
  \/ DaoStakeAPI3
  \/ DaoUnstakeAPI3
  \/ DaoGetRewards
  \/ DaoClaimRewards
  \/ DaoGetAPR
  \/ GovernanceGetProposals
  \/ GovernanceGetProposal
  \/ GovernanceVoteOnProposal
  \/ GovernanceGetVoteRecord
  \/ GovernanceGetTreasury
  \/ TokenGetAPI3Price
  \/ TokenGetAPI3Supply
  \/ TokenGetUserBalance
  \/ TokenTransferAPI3
  \/ DapisGetDAPIValue
  \/ DapisGetDAPIInfo
  \/ DapisListDAPIs
  \/ DapisGetDAPIUpdateTime
  \/ DataFeedsReadDataFeed
  \/ DataFeedsGetFeedMetadata
  \/ DataFeedsGetMultipleFeeds
  \/ UtilityGetContractAddresses
  \/ UtilityGetAPIHealth
  \/ OevPlaceOEVBid
  \/ AirnodesMakeAirnodeRequest
  \/ SubscriptionsCreateSubscription
  \/ SubscriptionsRenewSubscription
  \/ TriggerDAPIPriceUpdate
  \/ TriggerDAPIDeviationThreshold
  \/ Return

Spec == Init /\ [][Next]_vars

(***************************************************************************)
(* The codec on its own: calls of the encoder, the decoders and the        *)
(* decimal conversions with arguments drawn from small sets                *)
(***************************************************************************)
MaxValue == 12

MaxDecimals == 18

RECURSIVE DecimalDigits(_)
DecimalDigits(n) == IF n < 10 THEN <<n>> ELSE Append(DecimalDigits(n \div 10), n % 10)

BigOf(n) == MkBig(FALSE, DecimalDigits(n))

TWO_256 == BigAdd(BigIntFromHex(Repeat("f", 64)).value, BigOf(1))

Values ==
  {BigOf(n * m) : n \in 0..MaxValue, m \in {1, 100, 1001}}
  \cup {BigIntParse(<<"1", "5">> \o Repeat("0", 17)).value,
        BigIntParse(<<"1", "2", "3", "4", "5", "6", "7", "8", "9">> \o Repeat("0", 12)
                    \o <<"9", "8", "7">>).value,
        BigIntFromHex(Repeat("f", 64)).value,
        MkBig(TRUE, <<5>>), MkBig(TRUE, <<1, 5, 0, 0>>)}

Signatures ==
  {[name |-> "readDataFeedWithDapiName", types |-> <<"bytes32">>],
   [name |-> "readDataFeedWithId", types |-> <<"bytes32">>],
   [name |-> "dapiNameToDataFeedId", types |-> <<"bytes32">>],
   [name |-> "balanceOf", types |-> <<"address">>],
   [name |-> "totalSupply", types |-> <<>>],
   [name |-> "transfer", types |-> <<"address", "uint256">>],
   [name |-> "userStake", types |-> <<"address">>],
   [name |-> "totalStake", types |-> <<>>],
   [name |-> "stake", types |-> <<"uint256">>],
   [name |-> "unstake", types |-> <<>>],
   [name |-> "apr", types |-> <<>>],
   [name |-> "getUserReward", types |-> <<"address">>],
   [name |-> "claimReward", types |-> <<>>],
   [name |-> "proposal", types |-> <<"uint256">>],
   [name |-> "castVote", types |-> <<"uint256", "uint8">>],
   [name |-> "approve", types |-> <<"address", "uint256">>]}

Calls ==
  {[name |-> "readDataFeedWithDapiName", types |-> <<"bytes32">>,
    values |-> <<dapiNameToBytes32(ETH_USD)>>],
   [name |-> "readDataFeedWithDapiName", types |-> <<"bytes32">>, values |-> <<ETH_USD>>],
   [name |-> "readDataFeedWithId", types |-> <<"bytes32">>, values |-> <<VALID_FEED_ID>>],
   [name |-> "balanceOf", types |-> <<"address">>, values |-> <<VALID_ADDRESS>>],
   [name |-> "totalSupply", types |-> <<>>, values |-> <<>>],
   [name |-> "transfer", types |-> <<"address", "uint256">>,
    values |-> <<VALID_ADDRESS, <<"1", "5">> \o Repeat("0", 17)>>],
   [name |-> "stake", types |-> <<"uint256">>, values |-> <<<<"2">>>>],
   [name |-> "stake", types |-> <<"uint256">>, values |-> <<<<"n", "o", "n", "e">>>>],
   [name |-> "proposal", types |-> <<"uint256">>, values |-> <<<<"7">>>>],
   [name |-> "castVote", types |-> <<"uint256", "uint8">>, values |-> <<<<"7">>, <<"1">>>>]}

HexResponses ==
  {<<"0", "x">>, <<"0", "x", "0", "1">>, <<"0", "x">> \o Word(<<"2", "a">>),
   Word(<<"2", "a">>), <<"0", "x">> \o Word(<<"2", "a">>) \o <<"f", "f">>,
   RESULT_A, <<"0", "x", "z", "z">>,
   <<"0", "x">> \o Repeat("f", 64), <<"0", "x">> \o Repeat("f", 63) \o <<"b">>,
   <<"0", "x">> \o Repeat("f", 63) \o <<"b">> \o Word(<<"6", "4">>)}

Offsets == {0, 64}

Codec(o, in, res) ==
  /\ pc' = "done"
  /\ op' = o
  /\ input' = in
  /\ requests' = <<>>
  /\ outcome' = res
  /\ UNCHANGED <<staticData, processVars>>

CodecGetFunctionSelector ==
  \E sig \in Signatures :
    /\ pc = "idle"
    /\ Codec("codec.getFunctionSelector", sig, Ok(getFunctionSelector(sig.name, sig.types)))

CodecEncodeFunctionCall ==
  \E call \in Calls :
    /\ pc = "idle"
    /\ Codec("codec.encodeFunctionCall", call,
             encodeFunctionCall(call.name, call.types, call.values))

\* the decimal strings handed to encodeParameters as uint256 values
Uint256Texts == {BigToString(v) : v \in Values \cup {TWO_256}}

MIXED_CASE_ADDRESS == <<"0", "x", "A", "b", "C", "d", "E", "F">> \o Repeat("9", 34)

LOWER_CASE_ADDRESS == <<"0", "x">> \o Repeat("a", 39) \o <<"7">>

ParameterLists ==
  {[types |-> <<"uint256">>, values |-> <<text>>] : text \in Uint256Texts}
  \cup {[types |-> <<"address">>, values |-> <<a>>] :
          a \in Addresses \cup {MIXED_CASE_ADDRESS, LOWER_CASE_ADDRESS,
                                sliceFrom(MIXED_CASE_ADDRESS, 2)}}

CodecEncodeParameters ==
  \E list \in ParameterLists :
    /\ pc = "idle"
    /\ Codec("codec.encodeParameters", list, encodeParameters(list.types, list.values))

CodecDecodeInt224 ==
  \E hex \in HexResponses :
    /\ pc = "idle"
    /\ Codec("codec.decodeInt224", [hex |-> hex, offset |-> 0], decodeInt224(hex))

CodecDecodeUint32 ==
  \E hex \in HexResponses, offset \in Offsets :
    /\ pc = "idle"
    /\ Codec("codec.decodeUint32", [hex |-> hex, offset |-> offset], decodeUint32(hex, offset))

CodecDecodeUint256 ==
  \E hex \in HexResponses, offset \in Offsets :
    /\ pc = "idle"
    /\ Codec("codec.decodeUint256", [hex |-> hex, offset |-> offset],
             decodeUint256(hex, offset))

CodecWeiToEther ==
  \E v \in Values :
    /\ pc = "idle"
    /\ Codec("codec.weiToEther", [value |-> v, decimals |-> 18, text |-> <<>>],
             Ok(weiToEther(v)))

\* the largest exponent for which the double 10 ** decimals is the power of ten
MAX_EXACT_POW10 == 22

PowerOfTen(d) == MkBig(FALSE, <<1>> \o Repeat(0, d))

\* BigInt(10 ** d): 10 ** 23 lies halfway between two doubles, and Math.pow
\* gives one of them
Pow10AsNumber(d) ==
  IF d <= MAX_EXACT_POW10 THEN {PowerOfTen(d)}
  ELSE {BigSub(PowerOfTen(d), BigOf(8388608)), BigAdd(PowerOfTen(d), BigOf(8388608))}

WideValues ==
  {BigOf(0), PowerOfTen(MAX_EXACT_POW10), PowerOfTen(MAX_EXACT_POW10 + 1),
   MkBig(FALSE, <<5>> \o Repeat(0, MAX_EXACT_POW10)),
   MkBig(FALSE, <<1, 2, 5>> \o Repeat(0, MAX_EXACT_POW10 - 1)),
   MkBig(FALSE, <<3>> \o Repeat(0, MAX_EXACT_POW10 + 1) \o <<7>>)}

\* formatWithDecimals at the edge of the exact powers of ten
CodecFormatWide ==
  \E v \in WideValues, d \in {MAX_EXACT_POW10, MAX_EXACT_POW10 + 1} :
    \E divisor \in Pow10AsNumber(d) :
      /\ pc = "idle"
      /\ Codec("codec.formatWide", [value |-> v, decimals |-> d, text |-> <<>>],
               Ok(formatWithDivisor(v, d, divisor)))

\* decimal texts as a user types them, well formed and not
Texts ==
  {<<"1", ".", "5">>, <<"2">>, <<"1", ".", "2", ".", "3">>, <<"1", ".", ".", "2">>,
   <<"1", "e", "3">>, <<"a", "b", "c">>, <<"0", "x", "1">>, <<"1", ".", "5", "x">>, <<>>}

TextDecimals == {0, 2, DEFAULT_DECIMALS}

\* the keys of the registry and identifiers outside it
NetworkIds == DOMAIN NETWORK_CONFIGS \cup {"solana", "Ethereum", ""}

CodecSupports ==
  \E n \in NetworkIds :
    /\ pc = "idle"
    /\ Codec("codec.supports", [network |-> n],
             Ok([dao |-> supportsDAO(n), staking |-> supportsStaking(n)]))

CodecParseText ==
  \E text \in Texts, d \in TextDecimals :
    /\ pc = "idle"
    /\ Codec("codec.parseText", [text |-> text, decimals |-> d], parseWithDecimals(text, d))

CodecEtherToWei ==
  \E text \in Texts :
    /\ pc = "idle"
    /\ Codec("codec.etherToWei", [text |-> text, decimals |-> 18], etherToWei(text))

\* formatWithDecimals(v, d), whose text the next step parses back
CodecFormatWithDecimals ==
  \E v \in Values, d \in 0..MaxDecimals :
    /\ pc = "idle"
    /\ pc' = "formatted"
    /\ op' = "codec.formatWithDecimals"
    /\ input' = [value |-> v, decimals |-> d, text |-> <<>>]
    /\ requests' = <<>>
    /\ outcome' = Ok(formatWithDecimals(v, d))
    /\ UNCHANGED <<staticData, processVars>>

\* parseWithDecimals(text, d) of the text the previous step produced
CodecParseWithDecimals ==
  /\ pc = "formatted"
  /\ pc' = "done"
  /\ op' = "codec.parseWithDecimals"
  /\ input' = [value |-> input.value, decimals |-> input.decimals, text |-> outcome.value]
  /\ outcome' = parseWithDecimals(outcome.value, input.decimals)
  /\ UNCHANGED <<requests, staticData, processVars>>

CodecNext ==
  \/ CodecGetFunctionSelector
  \/ CodecEncodeFunctionCall
  \/ CodecEncodeParameters
  \/ CodecDecodeInt224
  \/ CodecDecodeUint32
  \/ CodecDecodeUint256
  \/ CodecWeiToEther
  \/ CodecParseText
  \/ CodecEtherToWei
  \/ CodecSupports
  \/ CodecFormatWide
  \/ CodecFormatWithDecimals
  \/ CodecParseWithDecimals
  \/ Return

CodecSpec == Init /\ [][CodecNext]_vars

(***************************************************************************)
(* The node classes on their own: executions over lists of items, and      *)
(* polls of a trigger node whose static data lives on between the polls    *)
(***************************************************************************)
MaxItems == 2

RECURSIVE ListsUpTo(_, _)
ListsUpTo(S, n) ==
  IF n = 0 THEN {<<>>}
  ELSE ListsUpTo(S, n - 1) \cup {Append(l, x) : l \in ListsUpTo(S, n - 1), x \in S}

\* the feed id parameter of an item: a feed id, a malformed one, or a list
ItemParameters == FeedIds \cup {<<"0", "x", "f", "e", ",">> \o VALID_FEED_ID}

\* one response for every request of the execution, or a switch after the first
ExecuteEnvs ==
  {[i \in 1..(2 * MaxItems) |-> IF i <= 1 THEN a ELSE b] :
     a \in {Resolves(RESULT_A, "json"), HttpThrows},
     b \in {Resolves(RESULT_B, "json"), HttpThrows}}

ExecuteInputs ==
  [resource : {"dataFeeds", "feeds"},
   operation : {"readDataFeed", "getFeedMetadata", "getMultipleFeeds", "readFeed"},
   credentials : {[network |-> "ethereum", privateKey |-> ""]},
   items : ListsUpTo(ItemParameters, MaxItems),
   continueOnFail : BOOLEAN,
   env : ExecuteEnvs]

\* Api3.execute: the licensing notice of utils/helpers, then the item loop
Execute(in) ==
  LET finish(r) ==
        /\ requests' = r.reqs
        /\ outcome' = r.res
  IN  /\ console' = IF licensingNoticeLogged THEN console
                    ELSE Append(console, LICENSING_NOTICE)
      /\ licensingNoticeLogged' = TRUE
      /\ pc' = "done"
      /\ op' = "Api3.execute"
      /\ input' = in
      /\ finish(executeItems(in.resource, in.operation, in.credentials, in.items,
                             in.continueOnFail, in.env, 1))
      /\ UNCHANGED <<staticData, triggerNoticeLogged, emittedIds, registry>>

\* the ids of the auction and proposal events of a poll's result
EmittedIdsOf(triggerType, res) ==
  IF res.ok /\ triggerType \in {"oevAuctionStarted", "governanceProposal"}
  THEN {<<triggerType, res.value[k].id>> : k \in 1..Len(res.value)}
  ELSE {}

\* Api3Trigger.poll: the licensing notice of the trigger module, then the poll
TriggerPoll(in) ==
  LET finish(r) ==
        /\ requests' = r.reqs
        /\ outcome' = r.res
        /\ staticData' = r.pollData
        /\ emittedIds' = emittedIds \cup EmittedIdsOf(in.triggerType, r.res)
  IN  /\ console' = IF triggerNoticeLogged THEN console
                    ELSE Append(console, LICENSING_NOTICE)
      /\ triggerNoticeLogged' = TRUE
      /\ pc' = "done"
      /\ op' = "Api3Trigger.poll"
      /\ input' = in
      /\ finish(triggerPoll(in.triggerType, in.credentials, in, staticData,
                            <<in.response>>))
      /\ UNCHANGED <<licensingNoticeLogged, registry>>

TriggerCredentials == {c \in Credentials : c.privateKey = ""}

\* a threshold between the deviations of the two values of the responses:
\* 1.5 is 25 % below 2, and 2 is 33 % above 1.5
WideThreshold == 30

\* a feed that answers with the value 0 and the timestamp 0
RESULT_UNSET == <<"0", "x">> \o Word(<<"0">>) \o Word(<<"0">>)

FeedPollInputs ==
  [triggerType : {"dAPIPriceUpdate"}, credentials : TriggerCredentials,
   dapiName : PollNames, deviationThreshold : {0},
   response : Responses \cup {Resolves(RESULT_UNSET, "json")}]
  \cup [triggerType : {"dAPIDeviationThreshold"}, credentials : TriggerCredentials,
        dapiName : PollNames, deviationThreshold : {MaxThreshold, WideThreshold},
        response : Responses \cup {Resolves(RESULT_UNSET, "json")}]

\* the ids of the active auctions, or of the proposals, in a response body
IdLists == {<<>>, <<"1">>, <<"2">>, <<"1", "2">>}

IdPollInputs ==
  [triggerType : {"oevAuctionStarted", "governanceProposal"},
   credentials : TriggerCredentials, dapiName : {<<>>}, deviationThreshold : {0},
   response : {Resolves(<<>>, ids) : ids \in IdLists} \cup {[HttpThrows EXCEPT !.body = <<>>]}]

\* polls that store nothing
QuietPollInputs ==
  [triggerType : {"stakeRewardAvailable", "priceAlert"},
   credentials : TriggerCredentials, dapiName : {<<>>}, deviationThreshold : {0},
   response : {HttpThrows}]
  \cup [triggerType : {"oevAuctionStarted"}, credentials : TriggerCredentials,
        dapiName : {<<>>}, deviationThreshold : {0}, response : {HttpThrows}]

\* executions of a node without transport responses to wait for
QuietExecuteInputs ==
  {in \in ExecuteInputs : in.operation = "getFeedMetadata" /\ in.env[1] = HttpThrows
                          /\ in.env[2] = HttpThrows}

Api3Execute ==
  \E in \in ExecuteInputs :
    /\ pc = "idle"
    /\ Execute(in)

ExecuteNext == Api3Execute \/ Return

ExecuteSpec == Init /\ [][ExecuteNext]_vars

Api3TriggerPollFeed ==
  \E in \in FeedPollInputs :
    /\ pc = "idle"
    /\ TriggerPoll(in)

FeedTriggerNext == Api3TriggerPollFeed \/ Return

FeedTriggerSpec == Init /\ [][FeedTriggerNext]_vars

Api3TriggerPollIds ==
  \E in \in IdPollInputs :
    /\ pc = "idle"
    /\ TriggerPoll(in)

IdTriggerNext == Api3TriggerPollIds \/ Return

IdTriggerSpec == Init /\ [][IdTriggerNext]_vars

\* one process with an action node and a trigger node
Api3ExecuteQuiet ==
  \E in \in QuietExecuteInputs :
    /\ pc = "idle"
    /\ Execute(in)

Api3TriggerPollQuiet ==
  \E in \in QuietPollInputs :
    /\ pc = "idle"
    /\ TriggerPoll(in)

NodeNext == Api3ExecuteQuiet \/ Api3TriggerPollQuiet \/ Return

NodeSpec == Init /\ [][NodeNext]_vars

(***************************************************************************)
(* Properties                                                              *)
(***************************************************************************)
Done == pc = "done"

Failed == ~outcome.ok

SentNothing == requests = <<>>

StakingGovernanceReads ==
  {"dao.getStakingInfo", "dao.getUserStake", "dao.getRewards", "dao.getAPR",
   "governance.getProposals", "governance.getProposal", "governance.getVoteRecord",
   "governance.getTreasury"}

UnsupportedNetworkError ==
  /\ Failed
  /\ outcome.err.message \in
       {StakingOnlyOnEthereum(input.credentials.network), GovernanceOnlyOnEthereum}

\* the operations that validate the user address before they look at the network
AddressFirstReads == {"dao.getUserStake", "dao.getRewards"}

InvalidAddressError ==
  /\ op \in AddressFirstReads
  /\ ~isValidAddress(input.userAddress)
  /\ Failed
  /\ outcome.err.message = "Invalid user address format."

\* C1 as stated: a staking or governance read on a network other than ethereum
\* fails with the unsupported-network error and has sent no request.
C1_UnsupportedNetworkErrorAlways ==
  (Done /\ op \in StakingGovernanceReads /\ input.credentials.network # "ethereum")
    => (UnsupportedNetworkError /\ SentNothing)

\* C1, amended: a staking or governance read on a network other than ethereum
\* fails without sending any request; the error is the unsupported-network
\* error, except that dao.getUserStake and dao.getRewards report a malformed
\* user address first.
C1_UnsupportedNetworkFailsBeforeAnyRequest ==
  (Done /\ op \in StakingGovernanceReads /\ input.credentials.network # "ethereum")
    => (Failed /\ SentNothing /\ (UnsupportedNetworkError \/ InvalidAddressError))

C1_Witness ==
  /\ Done
  /\ op = "dao.getUserStake"
  /\ input.credentials.network = "polygon"
  /\ isValidAddress(input.userAddress)
  /\ UnsupportedNetworkError
  /\ SentNothing

\* the selectors of balanceOf, userStake, totalStake, getUserReward,
\* readDataFeedWithDapiName and readDataFeedWithId
ValueReadSelectors ==
  {getFunctionSelector("balanceOf", <<"address">>),
   getFunctionSelector("userStake", <<"address">>),
   getFunctionSelector("totalStake", <<>>),
   getFunctionSelector("getUserReward", <<"address">>),
   getFunctionSelector("readDataFeedWithDapiName", <<"bytes32">>),
   getFunctionSelector("readDataFeedWithId", <<"bytes32">>)}

FailedValueRead ==
  \E i \in 1..Len(requests) :
    /\ requests[i].method = "eth_call"
    /\ requests[i].failed
    /\ slice(requests[i].data, 0, 10) \in ValueReadSelectors

\* C2: an operation in which an eth_call for a token balance, a staked amount,
\* a pending reward or a data-feed value failed fails itself (so that none
\* reports the value of the failed read as 0).
C2_FailedReadFailsOperation ==
  (Done /\ op # "utility.getAPIHealth" /\ FailedValueRead) => Failed

ZERO_SELECTOR == <<"0", "x">> \o Repeat("0", 8)

\* C3: no call data sent in an eth_call, and no prepared transaction data an
\* operation returns, starts with the selector 0x00000000.
C3_NoZeroSelectorLeavesTheNode ==
  Done =>
    /\ \A i \in 1..Len(requests) :
         requests[i].method = "eth_call" => slice(requests[i].data, 0, 10) # ZERO_SELECTOR
    /\ (op = "governance.voteOnProposal" /\ outcome.ok)
         => slice(outcome.value.transactionData, 0, 10) # ZERO_SELECTOR

Decoders == {"codec.decodeInt224", "codec.decodeUint32", "codec.decodeUint256"}

\* C4: a decoder fails when the response, without its 0x, holds no full
\* 64-digit word at the offset.
C4_ShortWordFailsToDecode ==
  (Done /\ op \in Decoders /\ Len(clean0x(input.hex)) < input.offset + 64) => Failed

\* C5: parsing the text that formatWithDecimals made of a non-negative v with
\* d decimals, d in 0..MaxDecimals, gives v back.
C5_ParseInvertsFormat ==
  (Done /\ op = "codec.parseWithDecimals" /\ ~input.value.neg)
    => outcome = Ok(input.value)

C5_Witness ==
  /\ Done
  /\ op = "codec.parseWithDecimals"
  /\ input.value = BigOf(1001)
  /\ input.decimals = 2
  /\ input.text = <<"1", "0", ".", "0", "1">>
  /\ outcome = Ok(BigOf(1001))

\* C6: the call data of encodeFunctionCall(name, types, values) has
\* 10 + 64 * N characters, N the number of types.
C6_CallDataLength ==
  (Done /\ op = "codec.encodeFunctionCall" /\ outcome.ok)
    => Len(outcome.value) = 10 + 64 * Len(input.types)

\* the operations that resolve the network configuration of the credential's
\* network, by getNetworkConfig or by a read helper that calls it
ConfigResolvingOps ==
  {"token.getAPI3Supply", "token.getUserBalance", "token.transferAPI3",
   "dapis.getDAPIValue", "dapis.getDAPIInfo", "dapis.listDAPIs", "dapis.getDAPIUpdateTime",
   "dataFeeds.readDataFeed", "dataFeeds.getMultipleFeeds",
   "utility.getContractAddresses", "utility.getAPIHealth",
   "trigger.dAPIPriceUpdate", "trigger.dAPIDeviationThreshold"}

\* C7: an operation that resolves the configuration of a network that is no
\* key of NETWORK_CONFIGS fails.
C7_UnknownNetworkFailsOperation ==
  (Done /\ op \in ConfigResolvingOps /\ input.credentials.network \notin DOMAIN NETWORK_CONFIGS)
    => Failed

ReadMethods == {"eth_call", "eth_blockNumber", "eth_chainId"}

\* C8 as stated: every JSON-RPC request sent has method eth_call,
\* eth_blockNumber or eth_chainId.
C8_OnlyThreeMethods ==
  \A i \in 1..Len(requests) : requests[i].kind = "rpc" => requests[i].method \in ReadMethods

\* C8, amended: every JSON-RPC request sent has method eth_call,
\* eth_blockNumber or eth_chainId, or, in utility.getAPIHealth only,
\* eth_getBlockByNumber; no other method is ever sent.
C8_OnlyReadMethods ==
  \A i \in 1..Len(requests) :
    requests[i].kind = "rpc" =>
      \/ requests[i].method \in ReadMethods
      \/ op = "utility.getAPIHealth" /\ requests[i].method = "eth_getBlockByNumber"

C8_Witness ==
  /\ Done
  /\ op = "utility.getAPIHealth"
  /\ \E i \in 1..Len(requests) : requests[i].method = "eth_getBlockByNumber"
  /\ \E i \in 1..Len(requests) : requests[i].method = "eth_call"

WriteIntentOps ==
  {"dao.stakeAPI3", "dao.unstakeAPI3", "dao.claimRewards", "governance.voteOnProposal",
   "token.transferAPI3", "oev.placeOEVBid", "airnodes.makeAirnodeRequest",
   "subscriptions.createSubscription", "subscriptions.renewSubscription"}

PrivateKeyRequired ==
  {"Private key is required for staking. Please configure it in credentials.",
   "Private key is required for unstaking. Please configure it in credentials.",
   "Private key is required for claiming rewards. Please configure it in credentials.",
   "Private key is required for voting",
   "Private key is required for transfers",
   "Private key is required for placing bids. Please configure it in credentials.",
   "Private key is required to create subscriptions",
   "Private key is required to renew subscriptions"}

OperationOfTheNode ==
  op \notin {"transport.readDAPIValue", "transport.readDataFeedById",
             "transport.getTokenBalance", "transport.getTotalSupply",
             "transport.getUserStake", "transport.getTotalStake",
             "transport.getBlockNumber", "transport.getChainId",
             "transport.makeRpcCall"}

\* C9: without a private key a write-intent operation fails with a 'private
\* key required' error before any request; no other operation fails with it.
C9_WriteIntentNeedsPrivateKey ==
  (Done /\ OperationOfTheNode) =>
    /\ (op \in WriteIntentOps /\ input.credentials.privateKey = "")
         => (Failed /\ outcome.err.message \in PrivateKeyRequired /\ SentNothing)
    /\ op \notin WriteIntentOps
         => ~(Failed /\ outcome.err.message \in PrivateKeyRequired)

DomainReadHelpers ==
  {"transport.readDAPIValue", "transport.readDataFeedById", "transport.getTokenBalance",
   "transport.getTotalSupply", "transport.getUserStake", "transport.getTotalStake"}

OnRegistryNetwork ==
  op \in {"transport.readDAPIValue", "transport.readDataFeedById"}
    => input.network \in DOMAIN NETWORK_CONFIGS

\* C10: on a network of the registry a call of a domain read helper sends
\* exactly one JSON-RPC request, an eth_call, whether it succeeds or fails.
C10_HelperSendsOneRequest ==
  (Done /\ op \in DomainReadHelpers /\ OnRegistryNetwork)
    => (Len(requests) = 1 /\ requests[1].kind = "rpc" /\ requests[1].method = "eth_call")

C10_Witness ==
  /\ Done
  /\ op = "transport.getUserStake"
  /\ Len(requests) = 1
  /\ requests[1].failed
  /\ Failed

\* C11: a JSON-RPC body with an error object makes makeRpcCall fail with the
\* error's message and code, whether or not a result is present; a result is
\* returned only from a body without error, and it is the body's result.
C11_RpcErrorIsHardFailure ==
  (Done /\ op = "transport.makeRpcCall") =>
    /\ (input.response.http = "ok" /\ input.response.error)
         => /\ Failed
            /\ outcome.err.type = "NodeApiError"
            /\ outcome.err.message = input.response.message
            /\ outcome.err.description = "RPC Error Code: " \o input.response.code
    /\ outcome.ok => (~input.response.error /\ outcome.value = input.response.result)
    /\ Len(requests) = 1

C11_Witness ==
  /\ Done
  /\ op = "transport.makeRpcCall"
  /\ input.response = RpcErrorWithResult
  /\ Failed
  /\ outcome.err.message = "header not found"

FailedRestRequest ==
  \E i \in 1..Len(requests) : requests[i].kind = "rest" /\ requests[i].failed

\* C12: an operation whose REST request failed does not fail itself: it
\* completes with a result.
C12_RestFailureNeverFailsOperation ==
  (Done /\ FailedRestRequest) => outcome.ok

FirstWord(hex) == slice(clean0x(hex), 0, 64)

\* a 64-digit word that is the sign extension of a 224-bit two's-complement value
IsSignExtendedInt224(w) ==
  /\ isHexOfLen(w, 64)
  /\ \/ (\A i \in 1..8 : w[i] = "0") /\ HexVal(w[9]) < 8
     \/ (\A i \in 1..8 : toLowerCase(w)[i] = "f") /\ HexVal(w[9]) >= 8

\* the integer that such a word encodes
Int224Of(w) ==
  IF HexVal(w[1]) >= 8 THEN BigSub(BigIntFromHex(w).value, TWO_256)
  ELSE BigIntFromHex(w).value

\* C13: decodeInt224 of a response whose first word is the sign-extended
\* two's-complement encoding of x returns x, also for x < 0.
C13_DecodeInt224IsSigned ==
  (Done /\ op = "codec.decodeInt224" /\ IsSignExtendedInt224(FirstWord(input.hex)))
    => outcome = Ok(Int224Of(FirstWord(input.hex)))

WordAt(hex, offset) == slice(clean0x(hex), offset, offset + 64)

\* the low-order 32 bits of a 64-digit word
Low32(w) == BigIntFromHex(slice(w, 56, 64)).value

\* C14: decodeUint32 returns the low-order 32 bits of the word at the offset,
\* whatever the upper 224 bits hold.
C14_DecodeUint32Narrows ==
  (Done /\ op = "codec.decodeUint32" /\ isHexOfLen(WordAt(input.hex, input.offset), 64))
    => outcome = Ok(Low32(WordAt(input.hex, input.offset)))

Uint256Argument == BigIntParse(input.values[1]).value

InUint256Range(v) == ~v.neg /\ CmpMag(v.mag, TWO_256.mag) < 0

\* C15: encodeParameters(['uint256'], [v]) is the 64-digit zero-padded
\* hexadecimal of v for v in 0..2^256-1 and fails for every other v.
C15_Uint256RangeChecked ==
  (Done /\ op = "codec.encodeParameters" /\ input.types = <<"uint256">>) =>
    IF InUint256Range(Uint256Argument)
    THEN /\ outcome.ok
         /\ isHexOfLen(outcome.value, 64)
         /\ BigIntFromHex(outcome.value).value = Uint256Argument
    ELSE Failed

AllDecimalDigits(s) == \A i \in 1..Len(s) : IsDecChar(s[i])

\* an optional minus sign, digits, and possibly a '.' followed by digits only
IsSignedDecimalText(text) ==
  LET parts == split(text, ".")
      unsigned == IF parts[1] # <<>> /\ parts[1][1] = "-" THEN Tail(parts[1]) ELSE parts[1]
  IN  /\ Len(parts) <= 2
      /\ unsigned # <<>>
      /\ AllDecimalDigits(unsigned)
      /\ Len(parts) = 2 => (parts[2] # <<>> /\ AllDecimalDigits(parts[2]))

Formatted ==
  \/ pc = "formatted" /\ op = "codec.formatWithDecimals"
  \/ Done /\ op = "codec.weiToEther"

\* C16: the text that formatWithDecimals and weiToEther make of a negative
\* integer carries its minus sign at the start of the integer part only and
\* has decimal digits only after the '.'.
C16_SignOnlyInIntegerPart ==
  (Formatted /\ input.value.neg) => IsSignedDecimalText(outcome.value)

\* two or more '.' characters, or a character that is neither a digit nor '.'
IsMalformedDecimalText(text) ==
  \/ Cardinality({i \in 1..Len(text) : text[i] = "."}) >= 2
  \/ \E i \in 1..Len(text) : ~IsDecChar(text[i]) /\ text[i] # "."

\* C17: parseWithDecimals and etherToWei fail for a text with two or more '.'
\* characters or with a character that is no digit; they return no value.
C17_MalformedTextFails ==
  (Done /\ op \in {"codec.parseText", "codec.etherToWei"} /\ IsMalformedDecimalText(input.text))
    => Failed

IsLowerHex(c) == \E k \in 1..16 : HexChars[k] = c

\* C18: for a valid address a, encodeParameters(['address'], [a]) has 64
\* characters: 24 times '0', then the 40 hex digits of a in lower case.
C18_AddressWordIsLowerCasePadded ==
  (Done /\ op = "codec.encodeParameters" /\ input.types = <<"address">>
        /\ isValidAddress(input.values[1]))
    => /\ outcome.ok
       /\ Len(outcome.value) = 64
       /\ \A i \in 1..24 : outcome.value[i] = "0"
       /\ \A i \in 1..40 : /\ IsLowerHex(outcome.value[24 + i])
                           /\ HexVal(outcome.value[24 + i]) = HexVal(input.values[1][2 + i])

C18_Witness ==
  /\ Done /\ op = "codec.encodeParameters" /\ input.values = <<MIXED_CASE_ADDRESS>>
  /\ outcome = Ok(Repeat("0", 24) \o <<"a", "b", "c", "d", "e", "f">> \o Repeat("9", 34))

TRANSFER_SELECTOR == <<"0", "x", "a", "9", "0", "5", "9", "c", "b", "b">>

BALANCE_OF_SELECTOR == <<"0", "x", "7", "0", "a", "0", "8", "2", "3", "1">>

TOTAL_SUPPLY_SELECTOR == <<"0", "x", "1", "8", "1", "6", "0", "d", "d", "d">>

\* C19: getFunctionSelector returns '0x' plus 8 hex digits, the canonical
\* selectors of transfer, balanceOf and totalSupply, and the same string when
\* it is called again with the same signature.
C19_SelectorShapeAndValues ==
  (Done /\ op = "codec.getFunctionSelector")
    => /\ outcome.ok
       /\ Len(outcome.value) = 10
       /\ startsWith0x(outcome.value)
       /\ isHexOfLen(sliceFrom(outcome.value, 2), 8)
       /\ outcome.value = getFunctionSelector(input.name, input.types)
       /\ (input.name = "transfer" /\ input.types = <<"address", "uint256">>)
            => outcome.value = TRANSFER_SELECTOR
       /\ (input.name = "balanceOf" /\ input.types = <<"address">>)
            => outcome.value = BALANCE_OF_SELECTOR
       /\ (input.name = "totalSupply" /\ input.types = <<>>)
            => outcome.value = TOTAL_SUPPLY_SELECTOR

C19_Witness ==
  /\ Done /\ op = "codec.getFunctionSelector"
  /\ input.name = "transfer" /\ outcome = Ok(TRANSFER_SELECTOR)

HasStakingOrGovernance(n) ==
  /\ n \in DOMAIN NETWORK_CONFIGS
  /\ \/ NETWORK_CONFIGS[n].stakingPoolAddress # <<>>
     \/ NETWORK_CONFIGS[n].governanceAddress # <<>>

\* C20: supportsDAO(n) and supportsStaking(n) are true exactly when n is
\* 'ethereum', and they are true for the key of every registry entry that has
\* a stakingPoolAddress or a governanceAddress.
C20_SupportOnlyOnEthereum ==
  (Done /\ op = "codec.supports")
    => /\ outcome.value.dao <=> (input.network = "ethereum")
       /\ outcome.value.staking <=> (input.network = "ethereum")
       /\ HasStakingOrGovernance(input.network)
            => (outcome.value.dao /\ outcome.value.staking)

C20_Witness ==
  /\ Done /\ op = "codec.supports" /\ HasStakingOrGovernance(input.network)
  /\ outcome.value.dao /\ outcome.value.staking

\* the decimal text of v / 10^d: the integer part alone when the fraction is
\* zero, else the fraction padded to d digits without its trailing zeros
DecimalText(v, d) ==
  LET digits == Repeat("0", d + 1 - Len(v.mag)) \o [i \in 1..Len(v.mag) |-> DecChars[v.mag[i] + 1]]
      whole == SubSeq(digits, 1, Len(digits) - d)
      fraction == trimTrailingZeros(SubSeq(digits, Len(digits) - d + 1, Len(digits)))
  IN  IF fraction = <<>> THEN whole ELSE whole \o <<".">> \o fraction

FormatsWithDecimals ==
  \/ pc = "formatted" /\ op = "codec.formatWithDecimals"
  \/ Done /\ op \in {"codec.weiToEther", "codec.formatWide"}

\* C21: for v >= 0, formatWithDecimals(v, d) is v div 10^d alone when
\* v mod 10^d = 0, else that integer part, '.', and v mod 10^d padded to d
\* digits without trailing zeros; weiToEther(v) is formatWithDecimals(v, 18).
C21_FormatIsDecimalText ==
  (FormatsWithDecimals /\ ~input.value.neg)
    => /\ outcome = Ok(DecimalText(input.value, input.decimals))
       /\ op = "codec.weiToEther" => outcome.value = formatWithDecimals(input.value, 18)

InputHas(field) == field \in DOMAIN input

\* the operation was handed an address or a bytes32 identifier that is not
\* well formed
MalformedIdentifier ==
  \/ \E f \in {"userAddress", "toAddress", "airnodeAddress"} :
       InputHas(f) /\ ~isValidAddress(input[f])
  \/ \E f \in {"feedId", "endpointId"} : InputHas(f) /\ ~isValidBytes32(input[f])
  \/ /\ InputHas("feedIds")
     /\ \E i \in 1..Len(split(input.feedIds, ",")) :
          ~isValidBytes32(trim(split(input.feedIds, ",")[i]))

\* C22: an operation handed a malformed address or bytes32 identifier fails,
\* and fails before any request is sent; the value is neither skipped nor
\* forwarded into a request.
C22_MalformedIdentifierFailsFirst ==
  (Done /\ OperationOfTheNode /\ MalformedIdentifier) => (Failed /\ SentNothing)

NoticesWritten == Len(console)

\* C23: in one process the licensing notice is written to the console at most
\* once, whatever the order of the execute and poll invocations, and a flag
\* that is set is never reset.
C23_NoticeAtMostOnce ==
  /\ NoticesWritten <= 1
  /\ (licensingNoticeLogged \/ triggerNoticeLogged) => NoticesWritten >= 1

\* the part of C23 that holds: a flag, once set, stays set
C23_FlagsNeverReset ==
  [][/\ licensingNoticeLogged => licensingNoticeLogged'
     /\ triggerNoticeLogged => triggerNoticeLogged']_vars

\* a completed poll of the dAPIPriceUpdate trigger is the step from idle to done
PricePollCompletes ==
  /\ pc = "idle" /\ pc' = "done" /\ op' = "Api3Trigger.poll"
  /\ input'.triggerType = "dAPIPriceUpdate"
  /\ outcome'.ok

LastTimestampKey(in) == <<"lastTimestamp", normalizeDAPIName(in.dapiName)>>

\* the feed timestamp a poll reads: the second word of the response
TimestampRead(in) == BigIntFromHex(slice(clean0x(in.response.result), 64, 128)).value

\* C24: a poll of the dAPIPriceUpdate trigger emits an event exactly when an
\* earlier poll has completed and the timestamp read is greater than the one
\* read in the most recent completed poll; after a completed poll the stored
\* lastTimestamp is the timestamp read.
C24_EmitsExactlyOnNewerTimestamp ==
  [][PricePollCompletes =>
       /\ staticData'[LastTimestampKey(input')] = TimestampRead(input')
       /\ (outcome'.value # <<>>)
            <=> /\ Has(staticData, LastTimestampKey(input'))
                /\ CmpMag(TimestampRead(input').mag,
                          staticData[LastTimestampKey(input')].mag) > 0]_vars

\* the same with the case of a stored timestamp 0 left out
PricePollAfterNonZero ==
  [][(PricePollCompletes
        /\ (Has(staticData, LastTimestampKey(input'))
              => ~BigIsZero(staticData[LastTimestampKey(input')])))
      => /\ staticData'[LastTimestampKey(input')] = TimestampRead(input')
         /\ (outcome'.value # <<>>)
              <=> /\ Has(staticData, LastTimestampKey(input'))
                  /\ CmpMag(TimestampRead(input').mag,
                            staticData[LastTimestampKey(input')].mag) > 0]_vars

\* a poll of the oevAuctionStarted or the governanceProposal trigger
IdPollStep ==
  /\ pc = "idle" /\ pc' = "done" /\ op' = "Api3Trigger.poll"
  /\ input'.triggerType \in {"oevAuctionStarted", "governanceProposal"}

\* C25: an auction id (a proposal id) that an earlier poll has emitted is never
\* emitted again by a later poll.
C25_IdEmittedAtMostOnce ==
  [][IdPollStep => EmittedIdsOf(input'.triggerType, outcome') \cap emittedIds = {}]_vars

KnownKey(triggerType) ==
  IF triggerType = "oevAuctionStarted" THEN <<"knownAuctions">> ELSE <<"knownProposals">>

\* what the code does guarantee: a poll emits no id of the list that the last
\* successful poll has stored
IdPollSkipsStoredIds ==
  [][(IdPollStep /\ Has(staticData, KnownKey(input'.triggerType)))
       => \A k \in 1..Len(staticData[KnownKey(input'.triggerType)]) :
            <<input'.triggerType, staticData[KnownKey(input'.triggerType)][k]>>
              \notin EmittedIdsOf(input'.triggerType, outcome')]_vars

\* a completed poll of the dAPIDeviationThreshold trigger
DeviationPollCompletes ==
  /\ pc = "idle" /\ pc' = "done" /\ op' = "Api3Trigger.poll"
  /\ input'.triggerType = "dAPIDeviationThreshold"
  /\ outcome'.ok

BaselineKey(in) == <<"baseValue", normalizeDAPIName(in.dapiName)>>

\* the value a poll reads, the first word of the response, and its text
ValueRead(in) == BigIntFromHex(slice(clean0x(in.response.result), 0, 64)).value

ValueTextRead(in) == DecimalText(ValueRead(in), DEFAULT_DECIMALS)

\* the values a poll can read
PollValues == {ValueRead(in) : in \in FeedPollInputs}

\* |read - baseline| * 100 >= |baseline| * threshold, for the value the
\* baseline text stands for
DeviatesBy(baselineText, read, threshold) ==
  \E baseline \in PollValues :
    /\ DecimalText(baseline, DEFAULT_DECIMALS) = baselineText
    /\ CmpMag(MulSmall(BigSub(read, baseline).mag, 100),
              MulSmall(baseline.mag, threshold)) >= 0

OperationCompletes ==
  /\ pc = "idle"
  /\ pc' = "done"
  /\ op' \notin {"trigger.dAPIPriceUpdate", "trigger.dAPIDeviationThreshold"}

\* the result of getContractAddresses read off the initial contents of the
\* registry
AddressesOfInitialRegistry(network, res) ==
  /\ res.ok <=> network \in DOMAIN NETWORK_CONFIGS
  /\ res.ok =>
       /\ res.value.chainId = NETWORK_CONFIGS[network].chainId
       /\ res.value.dapiServer = NETWORK_CONFIGS[network].dapiServerAddress
       /\ res.value.api3Token = NETWORK_CONFIGS[network].api3TokenAddress
       /\ res.value.stakingPool = NETWORK_CONFIGS[network].stakingPoolAddress
       /\ res.value.governance = NETWORK_CONFIGS[network].governanceAddress

ItemAlone(in, parameter, env) ==
  IF in.resource = "dataFeeds"
  THEN dataFeedsExecute(in.operation, in.credentials, parameter, env)
  ELSE Fail("Unknown resource: " \o in.resource)

\* the items from k on, each handled with the responses its predecessors left
RECURSIVE ItemResults(_, _, _)
ItemResults(in, k, env) ==
  LET then(r) == <<r>> \o ItemResults(in, k + 1, Rest(env, Len(r.reqs)))
  IN  IF k > Len(in.items) THEN <<>> ELSE then(ItemAlone(in, in.items[k], env))

\* the records of item k: its result records, or one error record paired with it
ItemRecords(in, results, k) ==
  IF results[k].res.ok
  THEN buildReturnData(results[k].res.value, ReturnsArray(in.resource, in.operation))
  ELSE <<[json |-> [error |-> results[k].res.err.message],
          pairedItem |-> [item |-> k - 1]]>>

RECURSIVE RecordsUpTo(_, _, _)
RecordsUpTo(in, results, k) ==
  IF k = 0 THEN <<>> ELSE RecordsUpTo(in, results, k - 1) \o ItemRecords(in, results, k)

RECURSIVE RequestsUpTo(_, _)
RequestsUpTo(results, k) ==
  IF k = 0 THEN <<>> ELSE RequestsUpTo(results, k - 1) \o results[k].reqs

FailedItems(results) == {k \in 1..Len(results) : ~results[k].res.ok}

FirstFailedItem(results) ==
  CHOOSE k \in FailedItems(results) : \A j \in FailedItems(results) : k <= j

ExecuteFollowsItems(in, results) ==
  IF in.continueOnFail \/ FailedItems(results) = {}
  THEN /\ requests = RequestsUpTo(results, Len(results))
       /\ outcome = Ok(RecordsUpTo(in, results, Len(results)))
  ELSE /\ requests = RequestsUpTo(results, FirstFailedItem(results))
       /\ outcome = Throw(results[FirstFailedItem(results)].res.err)

\* C28: Api3.execute handles the items in index order; with continueOnFail the
\* output holds, in item order, each successful item's records and one error
\* record paired with each failed item, and every item is handled; without it
\* the first failed item's error ends the execution and no later item is handled.
C28_ItemsInOrderWithContinueOnFail ==
  (Done /\ op = "Api3.execute") => ExecuteFollowsItems(input, ItemResults(input, 1, input.env))

\* a failed first item (a malformed feed id) followed by a read that succeeds
C28_Witness ==
  /\ Done
  /\ op = "Api3.execute"
  /\ input.continueOnFail
  /\ input.operation = "readDataFeed"
  /\ Len(input.items) = 2
  /\ outcome.ok
  /\ Len(outcome.value) = 2
  /\ outcome.value[1] = [json |-> [error |-> outcome.value[1].json.error],
                         pairedItem |-> [item |-> 0]]
  /\ "pairedItem" \notin DOMAIN outcome.value[2]
  /\ Len(requests) = 1


\* --- C29 ------------------------------------------------------------------
\* the raw amounts that the successful responses carry: 1.5 and 2 tokens
RawReads == {decodeUint256(RESULT_A, 0).value, decodeUint256(RESULT_B, 0).value}

\* C29: for a raw balance b and a raw staked amount s read from the chain,
\* getUserBalance reports totalBalance = formatWithDecimals(b + s, 18).
C29_TotalIsBalancePlusStake ==
  (Done /\ op = "token.getUserBalance" /\ outcome.ok) =>
    \A b \in RawReads, s \in RawReads :
      (/\ outcome.value.balance = formatWithDecimals(b, 18)
       /\ outcome.value.stakedBalance = formatWithDecimals(s, 18))
      => outcome.value.totalBalance = formatWithDecimals(BigAdd(b, s), 18)

\* (likewise) getAPI3Supply reports the total supply less the raw staked amount
SupplyIsTotalLessStake ==
  (Done /\ op = "token.getAPI3Supply" /\ outcome.ok) =>
    \A t \in RawReads, s \in RawReads :
      (/\ outcome.value.totalSupply = formatWithDecimals(t, 18)
       /\ outcome.value.stakedSupply = formatWithDecimals(s, 18)
       /\ ~BigIsPositive(BigSub(s, t)))
      => outcome.value.circulatingSupply = formatWithDecimals(BigSub(t, s), 18)


\* --- C30 ------------------------------------------------------------------
\* the contract addresses that a registry entry stores (an absent optional
\* address is the empty string)
StoredAddresses(config) ==
  {config.dapiServerAddress}
  \cup ({config.api3TokenAddress, config.stakingPoolAddress, config.governanceAddress}
        \ {<<>>})

\* "0x" and exactly 40 hex digits, accepted by isValidAddress, and encoded
\* into the low-order 20 bytes of the word
WellFormedAddress(a) ==
  /\ Len(a) = 42
  /\ a[1] = "0" /\ a[2] = "x"
  /\ \A i \in 3..Len(a) : IsHexChar(a[i])
  /\ isValidAddress(a)
  /\ encodeAddress(a) = Repeat("0", 24) \o toLowerCase(SubSeq(a, 3, Len(a)))

\* C30: every contract address stored in an entry of the registry is "0x"
\* followed by exactly 40 hex digits, passes isValidAddress and is encoded
\* into the low-order 20 bytes of a word.
C30_RegistryAddressesWellFormed ==
  \A n \in DOMAIN registry : \A a \in StoredAddresses(registry[n]) : WellFormedAddress(a)

\* the same for the addresses other than the governance address
OtherAddressesWellFormed ==
  \A n \in DOMAIN registry :
    \A a \in StoredAddresses(registry[n]) \ {registry[n].governanceAddress} :
      WellFormedAddress(a)

====
